---- MODULE Spec2Model ----
(***************************************************************************)
(* Water-treatment plant simulator: the PlantState aggregate, the          *)
(* PlantController (AUTO rules), the PlantProcess physics and the          *)
(* PlantSimulator that sequences them (src/src/nemsh/plant), the Streamlit *)
(* panel that feeds them operator inputs (src/src/nemsh/app.py), and the   *)
(* command handlers of the two MQTT simulators (src/iot_sim.py,            *)
(* src/sim/waterplant_sim.py).                                             *)
(*                                                                         *)
(* The code computes in binary floating point; the model computes on a     *)
(* fixed-point grid, every quotient rounded to the nearest grid point:     *)
(*   time            1 ms          rpm              1 rpm                  *)
(*   voltage         1 V           temperature      0.001 C                *)
(*   wear, level     0.001 %       volume           1 ml                   *)
(*   flow            0.1 l/min     pressure         0.001 bar              *)
(*   power           1 W           ratios           1/1000                 *)
(*   alpha = dt/tau  1/10000                                               *)
(***************************************************************************)
EXTENDS Integers, Sequences, FiniteSets, TLC

\* ------------------------------------------------------------------------
\* Arithmetic of the grid
\* ------------------------------------------------------------------------

\* a / b of the code (b > 0), rounded to the nearest grid point
fdiv(a, b) == (a + b \div 2) \div b

\* int(x / b) of the code: truncation toward zero
idiv(a, b) == IF a >= 0 THEN a \div b ELSE -((-a) \div b)

abs(x) == IF x < 0 THEN -x ELSE x

max(a, b) == IF a >= b THEN a ELSE b

min(a, b) == IF a <= b THEN a ELSE b

\* math.sqrt on [1, 1.3333]: argument in 1/1000000, result in 1/1000
sqrt(x) == CHOOSE r \in 1000..1155 : r * r <= x /\ (r + 1) * (r + 1) > x

\* state.clamp
clamp(x, lo, hi) == IF x < lo THEN lo ELSE IF x > hi THEN hi ELSE x

ALPHA_ONE == 100 * 100

\* a faulty variant of alpha_of: the step fraction is capped at 2
alpha_of_capped_at_two(dt, tau) == clamp(fdiv(dt * ALPHA_ONE, tau), 0, 2 * ALPHA_ONE)

\* clamp(dt / tau, 0.0, 1.0)
alpha_of(dt, tau) == clamp(fdiv(dt * ALPHA_ONE, tau), 0, ALPHA_ONE)

\* x + (goal - x) * alpha
approach(x, goal, alpha) == x + fdiv((goal - x) * alpha, ALPHA_ONE)

\* ------------------------------------------------------------------------
\* ControllerConfig
\* ------------------------------------------------------------------------
in_rpm_min == 1000
in_rpm_nom == 2500
in_rpm_max == 4000
in_max_rpm_below_pct == 30000
in_nominal_until_pct == 80000
in_min_rpm_from_pct == 95000
in_off_at_full_pct == 100000
in_rpm_slew_per_s == 800
out_rpm_min == 1000
out_rpm_nom == 2500
out_rpm_max == 4400
out_off_at_pct == 5000
out_limit_at_pct == 20000
out_rpm_slew_per_s == 900
out_block_level_pct == 20000
out_block_wear_pct == 85000
out_unblock_wear_pct == 50000
out_block_confirm_s == 3000
out_unblock_confirm_s == 3000
demand_factor_min == 700
demand_factor_max == 1100
demand_change_period_s == 3600000
in_capacity_lpm_at_nom == 1200
out_nom_flow_lpm == 1100
backwash_min_start_wear_pct == 20000
backwash_force_at_full_pct == 100000
thr_a == 85000
thr_b == 650
target_a == 35000
target_b == 250
backwash_min_level_pct == 30000
backwash_min_duration_s == 10000

\* ------------------------------------------------------------------------
\* ProcessConfig
\* ------------------------------------------------------------------------
normal_v_min == 190
normal_v_max == 240
bypass_v_min == 180
bypass_v_max == 260
v_nom == 220
in_q_nom_lpm == 1200
in_p_clean_bar == 2700
in_p_nom_kw == 1500
gamma_wear == 3333
out_q_nom_lpm == 1100
out_p_clean_bar == 3000
out_p_nom_kw == 1600
rpm_tau_s == 1500
raw_ntu_in == 2
wear_k == 278
clean_rate_pct_per_s == 1
out_pressure_bar_flowing == 200
out_pressure_bar_no_flow == 0
backwash_flow_lpm == 500
motor_tau_heat_s == 120000
motor_tau_cool_s == 60000

\* ------------------------------------------------------------------------
\* PlantState and its parts, as constructed
\* ------------------------------------------------------------------------
EnvironmentState == [ambient_temperature_c |-> 20000]

StabilizerState ==
  [vin_v |-> 220, vout_v |-> 220, mode |-> "NORMAL", active_power_kw |-> 0]

PumpState ==
  [mode |-> "AUTO", state |-> "OFF",
   rpm_desired |-> 2500, rpm_actual |-> 0,
   rpm_min |-> 1000, rpm_nom |-> 2500, rpm_max |-> 4000,
   voltage_v |-> 220, power_kw |-> 0,
   pressure_bar |-> 0, flow_lpm |-> 0,
   motor_temp_c |-> 20000, hard_limit_c |-> 110000,
   overheat_seconds |-> 0]

FilterState ==
  [mode |-> "FILTER",
   in_pressure_bar |-> 0, out_pressure_bar |-> 200, delta_pressure_bar |-> 0,
   ntu |-> 1000, ph |-> 7000,
   wear_pct |-> 0, min_wear_after_backwash_pct |-> 10000]

TankState ==
  [capacity_liters |-> 1000000, level_liters |-> 500000,
   in_flow_lpm |-> 0, out_flow_lpm |-> 0,
   level_pct |-> 50000, level_rate_lps |-> 0]

PlantState ==
  [time_s |-> 0,
   env |-> EnvironmentState,
   stabilizer |-> StabilizerState,
   in_pump |-> PumpState,
   out_pump |-> PumpState,
   filter |-> FilterState,
   tank |-> TankState]

\* PlantController.__init__: the timers, the latch and the demand factor
PlantController ==
  [demand_timer_s |-> demand_change_period_s,
   backwash_elapsed_s |-> 0,
   out_blocked_by_filter |-> FALSE,
   out_block_timer_s |-> 0,
   out_unblock_timer_s |-> 0,
   out_demand_factor |-> 900]

\* ------------------------------------------------------------------------
\* PlantController (src/src/nemsh/plant/controller.py)
\* An operator takes and returns w = [s |-> PlantState, c |-> controller].
\* ------------------------------------------------------------------------

\* a faulty variant of _slew_to: no rate limit
_slew_to_jump(current, target, slew_per_s, dt) == target

_slew_to(current, target, slew_per_s, dt) ==
  LET max_step == fdiv(abs(slew_per_s) * dt, 1000)
      delta == target - current
  IN IF abs(delta) <= max_step
       THEN target
       ELSE current + (IF delta > 0 THEN max_step ELSE -max_step)

_start_threshold_wear(L) == clamp(thr_a - fdiv(thr_b * L, 1000), 20000, 85000)

_stop_target_wear(L) == clamp(target_a - fdiv(target_b * L, 1000), 10000, 35000)

\* a faulty variant of _control_filter_mode: the backwash time is compared
\* but never advanced
_control_filter_mode_timer_stuck(w, L, C, dt) ==
  IF w.s.filter.mode = "BACKWASH"
    THEN LET elapsed == w.c.backwash_elapsed_s
             target == _stop_target_wear(L)
             can_stop == elapsed >= backwash_min_duration_s
         IN IF can_stop /\ (C <= target \/ L <= backwash_min_level_pct)
              THEN [s |-> [w.s EXCEPT !.filter.mode = "FILTER"],
                    c |-> [w.c EXCEPT !.backwash_elapsed_s = 0]]
              ELSE [w EXCEPT !.c.backwash_elapsed_s = elapsed]
    ELSE LET thr == _start_threshold_wear(L)
             start == (L >= backwash_force_at_full_pct)
                        \/ (C >= max(backwash_min_start_wear_pct, thr))
         IN [s |-> IF start THEN [w.s EXCEPT !.filter.mode = "BACKWASH"] ELSE w.s,
             c |-> [w.c EXCEPT !.backwash_elapsed_s = 0]]

\* a faulty variant of _control_filter_mode: no minimum backwash duration
_control_filter_mode_no_min_duration(w, L, C, dt) ==
  IF w.s.filter.mode = "BACKWASH"
    THEN LET elapsed == w.c.backwash_elapsed_s + dt
             target == _stop_target_wear(L)
         IN IF C <= target \/ L <= backwash_min_level_pct
              THEN [s |-> [w.s EXCEPT !.filter.mode = "FILTER"],
                    c |-> [w.c EXCEPT !.backwash_elapsed_s = 0]]
              ELSE [w EXCEPT !.c.backwash_elapsed_s = elapsed]
    ELSE LET thr == _start_threshold_wear(L)
             start == (L >= backwash_force_at_full_pct)
                        \/ (C >= max(backwash_min_start_wear_pct, thr))
         IN [s |-> IF start THEN [w.s EXCEPT !.filter.mode = "BACKWASH"] ELSE w.s,
             c |-> [w.c EXCEPT !.backwash_elapsed_s = 0]]

_control_filter_mode(w, L, C, dt) ==
  IF w.s.filter.mode = "BACKWASH"
    THEN LET elapsed == w.c.backwash_elapsed_s + dt
             target == _stop_target_wear(L)
             can_stop == elapsed >= backwash_min_duration_s
         IN IF can_stop /\ (C <= target \/ L <= backwash_min_level_pct)
              THEN [s |-> [w.s EXCEPT !.filter.mode = "FILTER"],
                    c |-> [w.c EXCEPT !.backwash_elapsed_s = 0]]
              ELSE [w EXCEPT !.c.backwash_elapsed_s = elapsed]
    ELSE LET thr == _start_threshold_wear(L)
             start == (L >= backwash_force_at_full_pct)
                        \/ (C >= max(backwash_min_start_wear_pct, thr))
         IN [s |-> IF start THEN [w.s EXCEPT !.filter.mode = "BACKWASH"] ELSE w.s,
             c |-> [w.c EXCEPT !.backwash_elapsed_s = 0]]

\* a faulty variant of _in_rpm_target_by_level: no stepdown, nominal up to the
\* minimum band
_in_rpm_target_by_level_no_stepdown(L) ==
  IF L >= in_off_at_full_pct THEN 0
  ELSE IF L <= in_max_rpm_below_pct THEN in_rpm_max
  ELSE IF L < in_min_rpm_from_pct THEN in_rpm_nom
  ELSE in_rpm_min

_in_rpm_target_by_level(L) ==
  IF L >= in_off_at_full_pct THEN 0
  ELSE IF L <= in_max_rpm_below_pct THEN in_rpm_max
  ELSE IF L < in_nominal_until_pct THEN in_rpm_nom
  ELSE IF L >= in_min_rpm_from_pct THEN in_rpm_min
  ELSE LET band_start == in_nominal_until_pct
           band_end == in_min_rpm_from_pct
           step == 5000
           steps_count == (band_end - band_start) \div step
           idx0 == (L - band_start) \div step
           idx == max(0, min(idx0, steps_count - 1))
           \* rpm = nom - (nom - min) * idx / (steps_count - 1), then int(rpm)
       IN IF steps_count > 1
            THEN idiv(in_rpm_nom * (steps_count - 1) - (in_rpm_nom - in_rpm_min) * idx,
                      steps_count - 1)
            ELSE in_rpm_min

\* the two clamps that close every target: 0, or within [rpm_min, rpm_max]
target_bounds(target, p) ==
  LET t1 == clamp(target, 0, p.rpm_max)
  IN IF t1 <= 0 THEN 0 ELSE clamp(t1, p.rpm_min, p.rpm_max)

\* a faulty variant of _control_in_pump: the mode is not looked at
_control_in_pump_any_mode(w, L, dt) ==
  LET target0 == IF w.s.filter.mode = "BACKWASH" THEN 0
                 ELSE _in_rpm_target_by_level(L)
      target == target_bounds(target0, w.s.in_pump)
      rpm == _slew_to(w.s.in_pump.rpm_desired, target, in_rpm_slew_per_s, dt)
  IN [w EXCEPT !.s.in_pump.rpm_desired = rpm,
               !.s.in_pump.state =
                  IF rpm >= w.s.in_pump.rpm_min THEN "ON" ELSE "OFF"]

\* a faulty variant of _control_in_pump: the target never falls below rpm_min
_control_in_pump_no_stop(w, L, dt) ==
  IF w.s.in_pump.mode # "AUTO" THEN w
  ELSE LET target0 == max(in_rpm_min, _in_rpm_target_by_level(L))
           target == target_bounds(target0, w.s.in_pump)
           rpm == _slew_to(w.s.in_pump.rpm_desired, target, in_rpm_slew_per_s, dt)
       IN [w EXCEPT !.s.in_pump.rpm_desired = rpm,
                    !.s.in_pump.state =
                       IF rpm >= w.s.in_pump.rpm_min THEN "ON" ELSE "OFF"]

\* a faulty variant of _control_in_pump: the setpoint is ramped, the run
\* state is left as physics set it
_control_in_pump_keeps_state(w, L, dt) ==
  IF w.s.in_pump.mode # "AUTO" THEN w
  ELSE LET target0 == IF w.s.filter.mode = "BACKWASH" THEN 0
                      ELSE _in_rpm_target_by_level(L)
           target == target_bounds(target0, w.s.in_pump)
           rpm == _slew_to(w.s.in_pump.rpm_desired, target, in_rpm_slew_per_s, dt)
       IN [w EXCEPT !.s.in_pump.rpm_desired = rpm]

_control_in_pump(w, L, dt) ==
  IF w.s.in_pump.mode # "AUTO" THEN w
  ELSE LET target0 == IF w.s.filter.mode = "BACKWASH" THEN 0
                      ELSE _in_rpm_target_by_level(L)
           target == target_bounds(target0, w.s.in_pump)
           rpm == _slew_to(w.s.in_pump.rpm_desired, target, in_rpm_slew_per_s, dt)
       IN [w EXCEPT !.s.in_pump.rpm_desired = rpm,
                    !.s.in_pump.state =
                       IF rpm >= w.s.in_pump.rpm_min THEN "ON" ELSE "OFF"]

\* draw stands for self._rng.uniform(demand_factor_min, demand_factor_max)
_update_out_demand_factor(w, dt, draw) ==
  LET t == w.c.demand_timer_s - dt
  IN IF t <= 0
       THEN [w EXCEPT !.c.out_demand_factor = draw,
                      !.c.demand_timer_s = demand_change_period_s + t]
       ELSE [w EXCEPT !.c.demand_timer_s = t]

\* a faulty variant of out_block_latch: the latch is released on level recovery
out_block_latch_level_release(c, L, C, dt) ==
  LET want_block == (L < out_block_level_pct) /\ (C >= out_block_wear_pct)
      want_unblock == (C <= out_unblock_wear_pct)
  IN IF ~c.out_blocked_by_filter
       THEN IF want_block
              THEN IF c.out_block_timer_s + dt >= out_block_confirm_s
                     THEN [c EXCEPT !.out_blocked_by_filter = TRUE,
                                    !.out_block_timer_s = 0]
                     ELSE [c EXCEPT !.out_block_timer_s = @ + dt]
              ELSE [c EXCEPT !.out_block_timer_s = 0]
       ELSE IF L >= out_block_level_pct
              THEN [c EXCEPT !.out_blocked_by_filter = FALSE,
                             !.out_unblock_timer_s = 0]
       ELSE IF want_unblock
              THEN IF c.out_unblock_timer_s + dt >= out_unblock_confirm_s
                     THEN [c EXCEPT !.out_blocked_by_filter = FALSE,
                                    !.out_unblock_timer_s = 0]
                     ELSE [c EXCEPT !.out_unblock_timer_s = @ + dt]
              ELSE [c EXCEPT !.out_unblock_timer_s = 0]

\* a faulty variant of out_block_latch: the unblock confirmation restarts on
\* every tick
out_block_latch_never_confirms(c, L, C, dt) ==
  LET want_block == (L < out_block_level_pct) /\ (C >= out_block_wear_pct)
  IN IF ~c.out_blocked_by_filter
       THEN IF want_block
              THEN IF c.out_block_timer_s + dt >= out_block_confirm_s
                     THEN [c EXCEPT !.out_blocked_by_filter = TRUE,
                                    !.out_block_timer_s = 0]
                     ELSE [c EXCEPT !.out_block_timer_s = @ + dt]
              ELSE [c EXCEPT !.out_block_timer_s = 0]
       ELSE [c EXCEPT !.out_unblock_timer_s = 0]

\* the block/unblock confirmation of _control_out_pump
out_block_latch(c, L, C, dt) ==
  LET want_block == (L < out_block_level_pct) /\ (C >= out_block_wear_pct)
      want_unblock == (C <= out_unblock_wear_pct)
  IN IF ~c.out_blocked_by_filter
       THEN IF want_block
              THEN IF c.out_block_timer_s + dt >= out_block_confirm_s
                     THEN [c EXCEPT !.out_blocked_by_filter = TRUE,
                                    !.out_block_timer_s = 0]
                     ELSE [c EXCEPT !.out_block_timer_s = @ + dt]
              ELSE [c EXCEPT !.out_block_timer_s = 0]
       ELSE IF want_unblock
              THEN IF c.out_unblock_timer_s + dt >= out_unblock_confirm_s
                     THEN [c EXCEPT !.out_blocked_by_filter = FALSE,
                                    !.out_unblock_timer_s = 0]
                     ELSE [c EXCEPT !.out_unblock_timer_s = @ + dt]
              ELSE [c EXCEPT !.out_unblock_timer_s = 0]

\* a faulty variant of out_rpm_target: the low level does not stop the pump
out_rpm_target_ignores_level(c, L) ==
  IF c.out_blocked_by_filter THEN 0
  ELSE IF L <= out_limit_at_pct THEN out_rpm_min
  ELSE LET desired_flow_lpm == fdiv(in_capacity_lpm_at_nom * c.out_demand_factor, 1000)
       IN clamp(fdiv(out_rpm_nom * desired_flow_lpm, out_nom_flow_lpm),
                out_rpm_min, out_rpm_max)

\* the target rpm rules of _control_out_pump
out_rpm_target(c, L) ==
  IF (L <= out_off_at_pct) \/ c.out_blocked_by_filter THEN 0
  ELSE IF L <= out_limit_at_pct THEN out_rpm_min
  ELSE LET desired_flow_lpm == fdiv(in_capacity_lpm_at_nom * c.out_demand_factor, 1000)
       IN clamp(fdiv(out_rpm_nom * desired_flow_lpm, out_nom_flow_lpm),
                out_rpm_min, out_rpm_max)

_control_out_pump(w, L, C, dt) ==
  IF w.s.out_pump.mode # "AUTO" THEN w
  ELSE LET c1 == out_block_latch(w.c, L, C, dt)
           target == target_bounds(out_rpm_target(c1, L), w.s.out_pump)
           rpm == _slew_to(w.s.out_pump.rpm_desired, target, out_rpm_slew_per_s, dt)
       IN [s |-> [w.s EXCEPT !.out_pump.rpm_desired = rpm,
                             !.out_pump.state =
                                IF rpm >= w.s.out_pump.rpm_min THEN "ON" ELSE "OFF"],
           c |-> c1]

\* a faulty variant of compute: the IN pump is controlled before the filter
compute_in_pump_first(w, dt, draw) ==
  IF dt <= 0 THEN w
  ELSE LET L == w.s.tank.level_pct
           C == w.s.filter.wear_pct
           w1 == _update_out_demand_factor(w, dt, draw)
           w2 == _control_in_pump(w1, L, dt)
           w3 == _control_filter_mode(w2, L, C, dt)
       IN _control_out_pump(w3, L, C, dt)

\* PlantController.compute
compute(w, dt, draw) ==
  IF dt <= 0 THEN w
  ELSE LET L == w.s.tank.level_pct
           C == w.s.filter.wear_pct
           w1 == _update_out_demand_factor(w, dt, draw)
           w2 == _control_filter_mode(w1, L, C, dt)
           w3 == _control_in_pump(w2, L, dt)
       IN _control_out_pump(w3, L, C, dt)

\* PlantController.compute called n times with ticks of dt on a plant whose
\* level and wear nothing changes in between
RECURSIVE compute_n(_, _, _, _)
compute_n(w, dt, draw, n) ==
  IF n = 0 THEN w
  ELSE CHOOSE last \in {compute_n(next, dt, draw, n - 1) :
                          next \in {compute(w, dt, draw)}} : TRUE

\* ------------------------------------------------------------------------
\* PlantProcess (src/src/nemsh/plant/process.py): operators on PlantState
\* ------------------------------------------------------------------------

_update_stabilizer(s) ==
  LET vin == s.stabilizer.vin_v
  IN IF normal_v_min <= vin /\ vin <= normal_v_max
       THEN [s EXCEPT !.stabilizer.mode = "NORMAL", !.stabilizer.vout_v = v_nom]
     ELSE IF bypass_v_min <= vin /\ vin <= bypass_v_max
       THEN [s EXCEPT !.stabilizer.mode = "BYPASS", !.stabilizer.vout_v = vin]
     ELSE [s EXCEPT !.stabilizer.mode = "FAULT", !.stabilizer.vout_v = 0]

_update_stabilizer_active_power(s) ==
  [s EXCEPT !.stabilizer.active_power_kw =
              max(0, s.in_pump.power_kw) + max(0, s.out_pump.power_kw)]

\* rpm / rpm_nom, in 1/1000
rpm_ratio(rpm, rpm_nom) == fdiv(rpm * 1000, rpm_nom)

\* wear_factor = 1 + gamma_wear * w^2, in 1/1000000
wear_factor(wear_pct) ==
  LET w == clamp(fdiv(wear_pct, 100), 0, 1000)
  IN 1000000 + fdiv(gamma_wear * fdiv(w * w, 1000), 10)

_compute_in_pump_hydraulics(s, p) ==
  LET rpm == p.rpm_actual
      r == rpm_ratio(rpm, in_rpm_nom)
      r2 == fdiv(r * r, 1000)
      r3 == fdiv(r2 * r, 1000)
      wf == wear_factor(s.filter.wear_pct)
      rt == sqrt(wf)
  IN IF rpm > 0
       THEN [p EXCEPT
               !.pressure_bar = fdiv(fdiv(in_p_clean_bar * r2, 1000) * fdiv(wf, 1000), 1000),
               !.flow_lpm = fdiv(in_q_nom_lpm * r, rt),
               !.power_kw = fdiv(fdiv(in_p_nom_kw * r3, 1000) * rt, 1000)]
       ELSE [p EXCEPT !.pressure_bar = 0, !.flow_lpm = 0, !.power_kw = 0]

_compute_out_pump_hydraulics(p) ==
  LET rpm == p.rpm_actual
      r == rpm_ratio(rpm, out_rpm_nom)
      r2 == fdiv(r * r, 1000)
      r3 == fdiv(r2 * r, 1000)
  IN IF rpm > 0
       THEN [p EXCEPT !.pressure_bar = fdiv(out_p_clean_bar * r2, 1000),
                      !.flow_lpm = fdiv(out_q_nom_lpm * r, 1000),
                      !.power_kw = fdiv(out_p_nom_kw * r3, 1000)]
       ELSE [p EXCEPT !.pressure_bar = 0, !.flow_lpm = 0, !.power_kw = 0]

_heat_motor(p, ambient_c, dt) ==
  LET rpm_norm == clamp(IF p.rpm_nom > 0 THEN rpm_ratio(p.rpm_actual, p.rpm_nom) ELSE 0,
                        0, 2000)
      teq == clamp(ambient_c + fdiv(70000 * fdiv(rpm_norm * rpm_norm, 1000), 1000),
                   ambient_c, 110000)
      tau == max(50, motor_tau_heat_s)
      alpha == alpha_of(dt, tau)
  IN [p EXCEPT !.motor_temp_c =
                  clamp(approach(p.motor_temp_c, teq, alpha), ambient_c, 120000)]

_cool_motor(p, ambient_c, dt) ==
  LET tau == max(50, motor_tau_cool_s)
      alpha == alpha_of(dt, tau)
  IN [p EXCEPT !.motor_temp_c =
                  clamp(approach(p.motor_temp_c, ambient_c, alpha), ambient_c, 120000),
               !.overheat_seconds = max(0, p.overheat_seconds - dt)]

\* a faulty variant of hard_fault: the state is latched, the outputs are left running
hard_fault_keeps_outputs(p) ==
  IF p.motor_temp_c >= p.hard_limit_c THEN [p EXCEPT !.state = "FAULT"] ELSE p

\* the hard fault that closes _update_pump
hard_fault(p) ==
  IF p.motor_temp_c >= p.hard_limit_c
    THEN [p EXCEPT !.state = "FAULT", !.rpm_actual = 0, !.flow_lpm = 0,
                   !.pressure_bar = 0, !.power_kw = 0]
    ELSE p

\* a faulty variant of _update_pump: the stabilizer's FAULT switches the pump
\* OFF after the OFF test, so the pump coasts instead of stopping
_update_pump_off_coasts(s, which, dt) ==
  LET p0 == [s[which] EXCEPT !.voltage_v = s.stabilizer.vout_v]
      vf == clamp(IF v_nom > 0 THEN fdiv(p0.voltage_v * 1000, v_nom) ELSE 0, 0, 1250)
      p1 == IF s.stabilizer.mode = "FAULT" THEN [p0 EXCEPT !.state = "OFF"] ELSE p0
  IN IF p0.state = "OFF" \/ p1.rpm_desired <= 0
       THEN [s EXCEPT ![which] =
               _cool_motor([p1 EXCEPT !.rpm_actual = 0, !.flow_lpm = 0,
                                      !.pressure_bar = 0, !.power_kw = 0],
                           s.env.ambient_temperature_c, dt)]
       ELSE LET rpm_target == clamp(fdiv(p1.rpm_desired * vf, 1000), 0, p1.rpm_max)
                tau == max(50, rpm_tau_s)
                alpha == alpha_of(dt, tau)
                p2 == [p1 EXCEPT !.rpm_actual =
                         clamp(approach(p1.rpm_actual, rpm_target, alpha), 0, p1.rpm_max)]
                p3 == IF which = "in_pump" THEN _compute_in_pump_hydraulics(s, p2)
                      ELSE _compute_out_pump_hydraulics(p2)
                p4 == _heat_motor(p3, s.env.ambient_temperature_c, dt)
            IN [s EXCEPT ![which] = hard_fault(p4)]

_update_pump(s, which, dt) ==
  LET p0 == [s[which] EXCEPT !.voltage_v = s.stabilizer.vout_v]
      vf == clamp(IF v_nom > 0 THEN fdiv(p0.voltage_v * 1000, v_nom) ELSE 0, 0, 1250)
      p1 == IF s.stabilizer.mode = "FAULT" THEN [p0 EXCEPT !.state = "OFF"] ELSE p0
  IN IF p1.state = "OFF" \/ p1.rpm_desired <= 0
       THEN [s EXCEPT ![which] =
               _cool_motor([p1 EXCEPT !.rpm_actual = 0, !.flow_lpm = 0,
                                      !.pressure_bar = 0, !.power_kw = 0],
                           s.env.ambient_temperature_c, dt)]
       ELSE LET rpm_target == clamp(fdiv(p1.rpm_desired * vf, 1000), 0, p1.rpm_max)
                tau == max(50, rpm_tau_s)
                alpha == alpha_of(dt, tau)
                p2 == [p1 EXCEPT !.rpm_actual =
                         clamp(approach(p1.rpm_actual, rpm_target, alpha), 0, p1.rpm_max)]
                p3 == IF which = "in_pump" THEN _compute_in_pump_hydraulics(s, p2)
                      ELSE _compute_out_pump_hydraulics(p2)
                p4 == _heat_motor(p3, s.env.ambient_temperature_c, dt)
            IN [s EXCEPT ![which] = hard_fault(p4)]

\* 1.0 + 2.0 * clamp((wear - 50) / 50, 0, 1) above 50 % wear
ntu_of_wear(wear_pct) ==
  IF wear_pct <= 50000 THEN 1000
  ELSE 1000 + 2 * clamp(fdiv((wear_pct - 50000) * 1000, 50000), 0, 1000)

_update_filter(s, dt) ==
  LET Q == IF s.in_pump.state = "ON" THEN s.in_pump.flow_lpm ELSE 0
      out_p == IF Q > 0 THEN out_pressure_bar_flowing ELSE out_pressure_bar_no_flow
      in_p == IF Q > 0 THEN s.in_pump.pressure_bar ELSE 0
      f0 == [s.filter EXCEPT !.out_pressure_bar = out_p,
                             !.in_pressure_bar = in_p,
                             !.delta_pressure_bar = max(0, in_p - out_p)]
      \* dw = (Q / 60) * raw_ntu_in * wear_k * dt
      dw == fdiv(fdiv(Q * raw_ntu_in * wear_k, 100) * dt, 600000)
  IN IF f0.mode = "FILTER"
       THEN LET wear == IF Q > 0 THEN clamp(f0.wear_pct + dw, 0, 100000)
                        ELSE f0.wear_pct
            IN [s EXCEPT !.filter = [f0 EXCEPT !.wear_pct = wear,
                                               !.ntu = ntu_of_wear(wear),
                                               !.ph = 7000]]
     ELSE IF f0.mode = "BACKWASH"
       THEN [s EXCEPT !.filter =
               [f0 EXCEPT !.wear_pct = max(f0.min_wear_after_backwash_pct,
                                           f0.wear_pct - clean_rate_pct_per_s * dt),
                          !.ntu = 3000,
                          !.ph = 7000]]
     ELSE [s EXCEPT !.filter = f0]

\* a faulty variant of tank_level: the new level is not clamped to the capacity
tank_level_unclamped(level_liters, in_flow_lpm, out_flow_lpm, capacity_liters, dt) ==
  max(0, level_liters + fdiv((in_flow_lpm - out_flow_lpm) * dt, 600))

\* a faulty variant of tank_level: the new level is not clamped at zero
tank_level_no_floor(level_liters, in_flow_lpm, out_flow_lpm, capacity_liters, dt) ==
  min(capacity_liters, level_liters + fdiv((in_flow_lpm - out_flow_lpm) * dt, 600))

\* level += (in - out) * dt / 60, clamped to [0, capacity]
tank_level(level_liters, in_flow_lpm, out_flow_lpm, capacity_liters, dt) ==
  clamp(level_liters + fdiv((in_flow_lpm - out_flow_lpm) * dt, 600),
        0, capacity_liters)

\* level_pct = 100 * level_liters / capacity_liters
level_pct_of(level_liters, capacity_liters) ==
  IF capacity_liters > 0
    THEN fdiv(100 * level_liters, capacity_liters \div 1000)
    ELSE 0

_update_tank(s, dt) ==
  LET inflow_lpm == IF s.filter.mode = "FILTER" /\ s.in_pump.state = "ON"
                      THEN s.in_pump.flow_lpm ELSE 0
      outflow_lpm == IF s.out_pump.state = "ON" THEN s.out_pump.flow_lpm ELSE 0
      backwash_lpm == IF s.filter.mode = "BACKWASH" THEN backwash_flow_lpm ELSE 0
      in_flow == inflow_lpm
      out_flow == outflow_lpm + backwash_lpm
      level == tank_level(s.tank.level_liters, in_flow, out_flow,
                          s.tank.capacity_liters, dt)
  IN [s EXCEPT !.tank.in_flow_lpm = in_flow,
               !.tank.out_flow_lpm = out_flow,
               !.tank.level_liters = level,
               !.tank.level_pct = level_pct_of(level, s.tank.capacity_liters),
               !.tank.level_rate_lps = fdiv((in_flow - out_flow) * 100, 60)]

\* PlantProcess.step
process_step(s, dt) ==
  IF dt <= 0 THEN s
  ELSE LET s1 == _update_stabilizer(s)
           s2 == _update_pump(s1, "in_pump", dt)
           s3 == _update_pump(s2, "out_pump", dt)
           s4 == _update_filter(s3, dt)
           s5 == _update_tank(s4, dt)
       IN _update_stabilizer_active_power(s5)

\* ------------------------------------------------------------------------
\* TankProcess (src/src/nemsh/plant/process/tank.py)
\* ------------------------------------------------------------------------

\* TankProcess.step: the flows are read from the tank's own fields
TankProcess_step(s, dt) ==
  IF dt <= 0 THEN s
  ELSE LET in_flow == s.tank.in_flow_lpm
           out_flow == s.tank.out_flow_lpm
           level == tank_level(s.tank.level_liters, in_flow, out_flow,
                               s.tank.capacity_liters, dt)
       IN [s EXCEPT !.tank.level_liters = level,
                    !.tank.level_pct =
                       clamp(level_pct_of(level, s.tank.capacity_liters), 0, 100000),
                    !.tank.level_rate_lps = fdiv((in_flow - out_flow) * 100, 60)]

\* ------------------------------------------------------------------------
\* Command values of the MQTT simulators (src/iot_sim.py,
\* src/sim/waterplant_sim.py): a JSON value is an int, a float (in 1/1000),
\* a string, null or the float NaN
\* ------------------------------------------------------------------------
IntVal(n) == [t |-> "int", n |-> n, v |-> ""]
FloatVal(milli) == [t |-> "float", n |-> milli, v |-> ""]
StrVal(v) == [t |-> "str", n |-> 0, v |-> v]
NoneVal == [t |-> "none", n |-> 0, v |-> ""]
NaNVal == [t |-> "nan", n |-> 0, v |-> ""]

\* data.get(key) of a key that is absent, or whose value is not a string
NoKey == "<None>"

\* the integer literals among the strings of the vocabulary
IntLiterals == ("3000" :> 3000) @@ ("9999" :> 9999)

\* the float literals among the strings of the vocabulary, in 1/1000;
\* float("nan") is a float, the NaN
FloatLiterals == ("3000" :> 3000000) @@ ("9999" :> 9999000) @@ ("12.5" :> 12500)

\* int(value): floats truncate toward zero; NaN, null, and strings that are
\* not integer literals raise
py_int(value) ==
  IF value.t = "int" THEN [ok |-> TRUE, n |-> value.n]
  ELSE IF value.t = "float" THEN [ok |-> TRUE, n |-> idiv(value.n, 1000)]
  ELSE IF value.t = "str" /\ value.v \in DOMAIN IntLiterals
    THEN [ok |-> TRUE, n |-> IntLiterals[value.v]]
  ELSE [ok |-> FALSE, n |-> 0]

\* float(value), in 1/1000: NaN and the string "nan" give the NaN; null and
\* strings that are not float literals raise
py_float(value) ==
  IF value.t = "int" THEN [ok |-> TRUE, nan |-> FALSE, n |-> value.n * 1000]
  ELSE IF value.t = "float" THEN [ok |-> TRUE, nan |-> FALSE, n |-> value.n]
  ELSE IF value.t = "nan" THEN [ok |-> TRUE, nan |-> TRUE, n |-> 0]
  ELSE IF value.t = "str" /\ value.v = "nan" THEN [ok |-> TRUE, nan |-> TRUE, n |-> 0]
  ELSE IF value.t = "str" /\ value.v \in DOMAIN FloatLiterals
    THEN [ok |-> TRUE, nan |-> FALSE, n |-> FloatLiterals[value.v]]
  ELSE [ok |-> FALSE, nan |-> FALSE, n |-> 0]

\* str.upper() on the strings of the vocabulary
upper(v) ==
  IF v = "closed" THEN "CLOSED"
  ELSE IF v = "idle" THEN "IDLE"
  ELSE IF v = "abc" THEN "ABC"
  ELSE IF v = "nan" THEN "NAN"
  ELSE v

\* a faulty variant of py_clamp: no upper limit
py_clamp_no_upper(f, lo, hi) ==
  IF f.nan THEN hi ELSE max(lo, f.n)

\* clamp(v, lo, hi) = max(lo, min(hi, v)) of both simulators, on a float
\* f = [nan, n]: every comparison with the NaN is false, so min(hi, NaN) is hi
py_clamp(f, lo, hi) ==
  IF f.nan THEN max(lo, hi) ELSE max(lo, min(hi, f.n))

\* ------------------------------------------------------------------------
\* iot_sim.py: WaterPlantState and the handlers of control events
\* ------------------------------------------------------------------------
iot_pump_nominal_rpm == 2850

\* last_command = None
NoCommand ==
  [ts |-> 0, source |-> NoKey, command |-> NoKey, target |-> NoKey,
   value |-> NoneVal, auth_ok |-> TRUE]

WaterPlantState ==
  [program |-> "iot_sim",
   pump_in_rpm |-> iot_pump_nominal_rpm,
   pump_out_rpm |-> iot_pump_nominal_rpm - 50,
   filter_mode |-> "FILTER",
   valves_state |-> "OPEN",
   tank_valves_state |-> "OPEN",
   level_sensors_state |-> "OK",
   last_command |-> NoCommand]

\* the record stored in last_command for the event e handled at time ts
command_record(e, ts) ==
  [ts |-> ts, source |-> e.source, command |-> e.command, target |-> e.target,
   value |-> e.value, auth_ok |-> e.auth_ok]

\* a faulty variant of _on_control: a command without auth_ok is only recorded
_on_control_refuses_unauthorised(st, e, ts) ==
  LET st1 == [st EXCEPT !.last_command = command_record(e, ts)]
      value == e.value
  IN IF ~e.auth_ok THEN st1
     ELSE IF e.command = "SET_RPM" /\ e.target \in {"pump_in", "pump_out"}
       THEN IF ~py_int(value).ok THEN st1
            ELSE LET rpm == py_clamp([nan |-> FALSE, n |-> py_int(value).n], 0, 4000)
                 IN IF e.target = "pump_in"
                      THEN [st1 EXCEPT !.pump_in_rpm = rpm]
                      ELSE [st1 EXCEPT !.pump_out_rpm = rpm]
     ELSE IF e.command = "SET_VALVE" /\ e.target \in {"filters", "tank"}
       THEN IF value.t # "str" THEN st1
            ELSE IF upper(value.v) \notin {"OPEN", "CLOSED"} THEN st1
            ELSE IF e.target = "filters"
              THEN [st1 EXCEPT !.valves_state = upper(value.v)]
              ELSE [st1 EXCEPT !.tank_valves_state = upper(value.v)]
     ELSE IF e.command = "SET_FILTER_MODE"
       THEN IF value.t = "str" /\ upper(value.v) \in {"FILTER", "BACKWASH", "IDLE"}
              THEN [st1 EXCEPT !.filter_mode = upper(value.v)]
              ELSE st1
     ELSE st1

\* PlantController._on_control
_on_control(st, e, ts) ==
  LET st1 == [st EXCEPT !.last_command = command_record(e, ts)]
      value == e.value
  IN IF e.command = "SET_RPM" /\ e.target \in {"pump_in", "pump_out"}
       THEN IF ~py_int(value).ok THEN st1
            ELSE LET rpm == py_clamp([nan |-> FALSE, n |-> py_int(value).n], 0, 4000)
                 IN IF e.target = "pump_in"
                      THEN [st1 EXCEPT !.pump_in_rpm = rpm]
                      ELSE [st1 EXCEPT !.pump_out_rpm = rpm]
     ELSE IF e.command = "SET_VALVE" /\ e.target \in {"filters", "tank"}
       THEN IF value.t # "str" THEN st1
            ELSE IF upper(value.v) \notin {"OPEN", "CLOSED"} THEN st1
            ELSE IF e.target = "filters"
              THEN [st1 EXCEPT !.valves_state = upper(value.v)]
              ELSE [st1 EXCEPT !.tank_valves_state = upper(value.v)]
     ELSE IF e.command = "SET_FILTER_MODE"
       THEN IF value.t = "str" /\ upper(value.v) \in {"FILTER", "BACKWASH", "IDLE"}
              THEN [st1 EXCEPT !.filter_mode = upper(value.v)]
              ELSE st1
     ELSE st1

\* the telemetry publisher's handling of a control event
publisher_on_control(st, e) ==
  IF e.command = "SET_LEVEL_SENSOR_STATE"
       /\ e.value.t = "str" /\ upper(e.value.v) \in {"OK", "FAULT", "TAMPER"}
    THEN [st EXCEPT !.level_sensors_state = upper(e.value.v)]
    ELSE st

\* ------------------------------------------------------------------------
\* sim/waterplant_sim.py: PlantState, apply_control and control_listener
\* ------------------------------------------------------------------------
vout_default_v == 230
vout_min_ok_v == 200
vout_min_fault_v == 185
vout_max_v == 250
pump_nominal_rpm == 2850
pump_max_rpm == 4000

waterplant_sim_PlantState ==
  [program |-> "waterplant_sim",
   stab_mode |-> "NORMAL",
   vout_set_v |-> vout_default_v * 1000,
   pump_in_state |-> "ON",
   pump_out_state |-> "ON",
   pump_in_rpm |-> pump_nominal_rpm,
   pump_out_rpm |-> pump_nominal_rpm - 50,
   last_command |-> NoCommand]

apply_control(st, cmd, target, value) ==
  IF cmd = "PUMP_ON"
    THEN IF target = "pump_in" THEN [st EXCEPT !.pump_in_state = "ON"]
         ELSE IF target = "pump_out" THEN [st EXCEPT !.pump_out_state = "ON"]
         ELSE st
  ELSE IF cmd = "PUMP_OFF"
    THEN IF target = "pump_in" THEN [st EXCEPT !.pump_in_state = "OFF"]
         ELSE IF target = "pump_out" THEN [st EXCEPT !.pump_out_state = "OFF"]
         ELSE st
  ELSE IF cmd = "SET_RPM"
    THEN IF ~py_int(value).ok THEN st
         ELSE LET rpm == py_clamp([nan |-> FALSE, n |-> py_int(value).n],
                                  0, pump_max_rpm)
              IN IF target = "pump_in" THEN [st EXCEPT !.pump_in_rpm = rpm]
                 ELSE IF target = "pump_out" THEN [st EXCEPT !.pump_out_rpm = rpm]
                 ELSE st
  ELSE IF cmd = "STAB_SET_VOUT"
    THEN IF ~py_float(value).ok THEN st
         ELSE [st EXCEPT !.vout_set_v = py_clamp(py_float(value), 0, vout_max_v * 1000)]
  ELSE IF cmd = "STAB_STEP"
    THEN IF ~py_float(value).ok THEN st
         ELSE LET dv == py_float(value)
              IN [st EXCEPT !.vout_set_v =
                    py_clamp([nan |-> dv.nan, n |-> st.vout_set_v + dv.n],
                             0, vout_max_v * 1000)]
  ELSE IF cmd = "STAB_RESET_FAULT"
    THEN IF st.vout_set_v >= vout_min_ok_v * 1000
           THEN [st EXCEPT !.stab_mode = "NORMAL"]
           ELSE st
  ELSE st

\* the body of control_listener's message loop, for a payload that parsed
control_listener(st, data, ts) ==
  IF data.command = NoKey \/ data.target = NoKey THEN st
  ELSE apply_control([st EXCEPT !.last_command = command_record(data, ts)],
                     data.command, data.target, data.value)

\* the events the handlers of a program drop: no branch takes the command
\* and target, or the branch returns before it writes
ignored(program, e) ==
  IF program = "iot_sim"
    THEN ~ \/ /\ e.command = "SET_RPM" /\ e.target \in {"pump_in", "pump_out"}
              /\ py_int(e.value).ok
           \/ /\ e.command = "SET_VALVE" /\ e.target \in {"filters", "tank"}
              /\ e.value.t = "str" /\ upper(e.value.v) \in {"OPEN", "CLOSED"}
           \/ /\ e.command = "SET_FILTER_MODE"
              /\ e.value.t = "str" /\ upper(e.value.v) \in {"FILTER", "BACKWASH", "IDLE"}
           \/ /\ e.command = "SET_LEVEL_SENSOR_STATE"
              /\ e.value.t = "str" /\ upper(e.value.v) \in {"OK", "FAULT", "TAMPER"}
    ELSE ~ \/ /\ e.command \in {"PUMP_ON", "PUMP_OFF"}
              /\ e.target \in {"pump_in", "pump_out"}
           \/ /\ e.command = "SET_RPM" /\ e.target \in {"pump_in", "pump_out"}
              /\ py_int(e.value).ok
           \/ /\ e.command \in {"STAB_SET_VOUT", "STAB_STEP"} /\ e.target # NoKey
              /\ py_float(e.value).ok
           \/ e.command = "STAB_RESET_FAULT" /\ e.target # NoKey

\* step_physics, the stabilizer's mode: the output droops under the load
\* (droop_v) and jitters (noise); in FAULT it sags to vin * [0.65, 0.85]
step_physics(st, droop_v, noise, sag_v) ==
  LET vout_v == IF st.stab_mode = "FAULT"
                  THEN py_clamp([nan |-> FALSE, n |-> sag_v], 120000, vout_max_v * 1000)
                  ELSE py_clamp([nan |-> FALSE, n |-> st.vout_set_v - droop_v + noise],
                                0, vout_max_v * 1000)
  IN IF vout_v < vout_min_fault_v * 1000 THEN [st EXCEPT !.stab_mode = "FAULT"]
     ELSE IF vout_v >= vout_min_ok_v * 1000 THEN [st EXCEPT !.stab_mode = "NORMAL"]
     ELSE st

\* ------------------------------------------------------------------------
\* StabilizerProcess (src/src/nemsh/plant/process/stabilizer.py)
\* ------------------------------------------------------------------------
GRID_V_MIN == 0
GRID_V_MAX == 280
GRID_FAULT_LOW == 170
GRID_BYPASS_HIGH == 240

\* the auxiliary loads in the sum of StabilizerProcess.step, in W
filter_system_load_kw == 250
control_load_kw == 80

\* the stabilizer fields StabilizerProcess reads and writes
StabilizerProcess_state ==
  [program |-> "StabilizerProcess", input_voltage |-> v_nom,
   output_voltage |-> v_nom, nominal_voltage |-> v_nom, mode |-> "NORMAL",
   active_power_kw |-> 0]

\* vin is the grid voltage after the inertia and the noise terms
_update_grid_voltage(st, vin) ==
  [st EXCEPT !.input_voltage = clamp(vin, GRID_V_MIN, GRID_V_MAX)]

\* a faulty variant of _update_stabilizer_mode: FAULT passes the input on
_update_stabilizer_mode_fault_passes(st) ==
  IF st.input_voltage < GRID_FAULT_LOW
    THEN [st EXCEPT !.mode = "FAULT", !.output_voltage = st.input_voltage]
  ELSE IF st.input_voltage > GRID_BYPASS_HIGH
    THEN [st EXCEPT !.mode = "BYPASS", !.output_voltage = st.input_voltage]
  ELSE [st EXCEPT !.mode = "NORMAL", !.output_voltage = st.nominal_voltage]

_update_stabilizer_mode(st) ==
  IF st.input_voltage < GRID_FAULT_LOW
    THEN [st EXCEPT !.mode = "FAULT", !.output_voltage = 0]
  ELSE IF st.input_voltage > GRID_BYPASS_HIGH
    THEN [st EXCEPT !.mode = "BYPASS", !.output_voltage = st.input_voltage]
  ELSE [st EXCEPT !.mode = "NORMAL", !.output_voltage = st.nominal_voltage]

\* the sum as Python groups it: (in + out + 0.25) if the filter is in FILTER
\* or BACKWASH, else (0 + 0.08)
StabilizerProcess_active_power(s) ==
  IF s.filter.mode \in {"FILTER", "BACKWASH"}
    THEN max(0, s.in_pump.power_kw) + max(0, s.out_pump.power_kw)
           + filter_system_load_kw
  ELSE 0 + control_load_kw

\* s is the PlantState whose pumps and filter the sum reads
StabilizerProcess_step(st, vin, s) ==
  [_update_stabilizer_mode(_update_grid_voltage(st, vin))
     EXCEPT !.active_power_kw = StabilizerProcess_active_power(s)]

\* ------------------------------------------------------------------------
\* State
\* ------------------------------------------------------------------------
VARIABLES
  s,              \* the PlantState the simulator owns
  c,              \* the PlantController's timers, latch and demand factor
  _time_accum_s,  \* PlantSimulator._time_accum_s
  call,           \* the operation performed last, with its arguments
  ncalls,         \* operations performed so far
  s0,             \* the PlantState at the start of the run
  mq,             \* the plant state of a program other than the simulator's
  ev              \* the control message handled last

vars == <<s, c, _time_accum_s, call, ncalls, s0, mq, ev>>

\* ------------------------------------------------------------------------
\* PlantSimulator (src/src/nemsh/plant/simulation.py)
\* ------------------------------------------------------------------------

\* step 3) of PlantSimulator.step: the integer clock and its accumulator
clock(time_s, accum, dt) ==
  LET a == accum + dt
  IN IF a >= 1000
       THEN [time_s |-> time_s + idiv(a, 1000), accum |-> a - idiv(a, 1000) * 1000]
       ELSE [time_s |-> time_s, accum |-> a]

\* a faulty variant of step: the simulator's own dt guard is missing
step_unguarded(x, dt, draw) ==
  LET w == compute([s |-> x.s, c |-> x.c], dt, draw)
      s1 == process_step(w.s, dt)
      k == clock(s1.time_s, x.accum, dt)
  IN [s |-> [s1 EXCEPT !.time_s = k.time_s], c |-> w.c, accum |-> k.accum]

\* a faulty variant of step: the physics runs before the controller, on the
\* setpoints of the tick before
step_physics_first(x, dt, draw) ==
  IF dt <= 0 THEN x
  ELSE LET s1 == process_step(x.s, dt)
           w == compute([s |-> s1, c |-> x.c], dt, draw)
           k == clock(w.s.time_s, x.accum, dt)
       IN [s |-> [w.s EXCEPT !.time_s = k.time_s], c |-> w.c, accum |-> k.accum]

\* PlantSimulator.step on x = [s, c, accum]
step(x, dt, draw) ==
  IF dt <= 0 THEN x
  ELSE LET w == compute([s |-> x.s, c |-> x.c], dt, draw)
           s1 == process_step(w.s, dt)
           k == clock(s1.time_s, x.accum, dt)
       IN [s |-> [s1 EXCEPT !.time_s = k.time_s], c |-> w.c, accum |-> k.accum]

\* the values _rng.uniform may return when the demand factor is redrawn
DemandDraws == {demand_factor_min, 900, demand_factor_max}

Draws(dt) == IF dt > 0 /\ c.demand_timer_s - dt <= 0 THEN DemandDraws
             ELSE {c.out_demand_factor}

Step(dt) ==
  \E draw \in Draws(dt) :
    LET x == step([s |-> s, c |-> c, accum |-> _time_accum_s], dt, draw)
    IN /\ s' = x.s
       /\ c' = x.c
       /\ _time_accum_s' = x.accum
       /\ call' = [op |-> "step", dt |-> dt]
       /\ ncalls' = ncalls + 1
       /\ UNCHANGED <<s0, mq, ev>>

\* ------------------------------------------------------------------------
\* The operator's panel (src/src/nemsh/app.py)
\* ------------------------------------------------------------------------

Ui(op, s1) ==
  /\ s' = s1
  /\ call' = [op |-> op, dt |-> 0]
  /\ ncalls' = ncalls + 1
  /\ UNCHANGED <<c, _time_accum_s, s0, mq, ev>>

\* the vin_v slider
SetVin(v) == Ui("vin", [s EXCEPT !.stabilizer.vin_v = v])

\* the IN mode / OUT mode select boxes
SetPumpMode(which, m) == Ui("mode", [s EXCEPT ![which].mode = m])

apply_manual_pump(pump, desired_rpm, desired_state) ==
  IF pump.mode = "MANUAL"
    THEN [pump EXCEPT
            !.state = desired_state,
            !.rpm_desired = IF desired_state = "OFF" THEN 0
                            ELSE IF desired_state = "ON" /\ desired_rpm < pump.rpm_min
                              THEN pump.rpm_min
                            ELSE desired_rpm]
    ELSE pump

ManualPump(which, rpm, st) ==
  Ui("manual", [s EXCEPT ![which] = apply_manual_pump(s[which], rpm, st)])

OverrideWear(wear_val) ==
  Ui("wear", [s EXCEPT !.filter.wear_pct = clamp(wear_val, 0, 100000)])

OverrideTank(tank_val) ==
  LET pct == clamp(tank_val, 0, 100000)
  IN Ui("tank", [s EXCEPT !.tank.level_liters = fdiv(s.tank.capacity_liters * (pct \div 100), 1000),
                          !.tank.level_pct = pct])

OverrideFilterMode(m) == Ui("filter", [s EXCEPT !.filter.mode = m])

\* ------------------------------------------------------------------------
\* Specification: the plant under any operator input and any tick length
\* ------------------------------------------------------------------------
MaxCalls == 4

DtSet == {-1000, 0, 100, 3000, 120000}
VinSet == {170, 185, 220, 270}
WearSet == {0, 50000, 90000}
TankSet == {3000, 15000, 100000}
ManualRpmSet == {500, 4000}
Pumps == {"in_pump", "out_pump"}
PumpModes == {"AUTO", "MANUAL"}
PumpStates == {"OFF", "ON", "FAULT"}
FilterModes == {"FILTER", "BACKWASH", "IDLE"}

\* no control message has been handled
NoEvent ==
  [command |-> NoKey, target |-> NoKey, value |-> NoneVal, auth_ok |-> TRUE,
   source |-> NoKey]

Init ==
  /\ s = PlantState
  /\ c = PlantController
  /\ _time_accum_s = 0
  /\ call = [op |-> "init", dt |-> 0]
  /\ ncalls = 0
  /\ s0 = PlantState
  /\ mq = WaterPlantState
  /\ ev = NoEvent

Next ==
  /\ ncalls < MaxCalls
  /\ \/ \E dt \in DtSet : Step(dt)
     \/ \E v \in VinSet : SetVin(v)
     \/ \E which \in Pumps, m \in PumpModes : SetPumpMode(which, m)
     \/ \E which \in Pumps, rpm \in ManualRpmSet, st \in PumpStates :
          ManualPump(which, rpm, st)
     \/ \E wear_val \in WearSet : OverrideWear(wear_val)
     \/ \E tank_val \in TankSet : OverrideTank(tank_val)
     \/ \E m \in FilterModes : OverrideFilterMode(m)

Spec == Init /\ [][Next]_vars

\* ------------------------------------------------------------------------
\* Specification: the OUT-block latch, driven through the wear and tank
\* overrides and the OUT mode select box, on ticks of one and three seconds
\* ------------------------------------------------------------------------
MaxLatchCalls == 7

LatchDtSet == {1000, 3000}
LatchWearSet == {50000, 90000}
LatchTankSet == {15000, 60000}

LatchNext ==
  /\ ncalls < MaxLatchCalls
  /\ \/ \E dt \in LatchDtSet : Step(dt)
     \/ \E wear_val \in LatchWearSet : OverrideWear(wear_val)
     \/ \E tank_val \in LatchTankSet : OverrideTank(tank_val)
     \/ \E m \in PumpModes : SetPumpMode("out_pump", m)

SpecLatch == Init /\ [][LatchNext]_vars

\* ------------------------------------------------------------------------
\* Specification: the tank under constant flows, stepped by TankProcess.step
\* and by PlantProcess._update_tank with ticks of one size
\* ------------------------------------------------------------------------
MaxTankTicks == 4

TankDtSet == {600, 3000, 18000}
TankLevelSet == {0, 50000, 500000, 900000, 1000000}
TankPumpFlowSet == {0, 6000, 12000}

\* a PlantState whose pumps deliver Qin and Qout and whose tank holds level
TankInit ==
  /\ \E level \in TankLevelSet, Qin \in TankPumpFlowSet, Qout \in TankPumpFlowSet,
        m \in {"FILTER", "BACKWASH"} :
       LET p == [PlantState EXCEPT
                   !.in_pump.state = "ON", !.in_pump.flow_lpm = Qin,
                   !.out_pump.state = "ON", !.out_pump.flow_lpm = Qout,
                   !.filter.mode = m,
                   !.tank.level_liters = level,
                   !.tank.level_pct = level_pct_of(level, PlantState.tank.capacity_liters),
                   !.tank.in_flow_lpm = IF m = "FILTER" THEN Qin ELSE 0,
                   !.tank.out_flow_lpm =
                      IF m = "BACKWASH" THEN Qout + backwash_flow_lpm ELSE Qout]
       IN s = p /\ s0 = p
  /\ c = PlantController
  /\ _time_accum_s = 0
  /\ call = [op |-> "init", dt |-> 0]
  /\ ncalls = 0
  /\ mq = WaterPlantState
  /\ ev = NoEvent

TankTick(op, s1, dt) ==
  /\ ncalls = 0 \/ dt = call.dt
  /\ s' = s1
  /\ call' = [op |-> op, dt |-> dt]
  /\ ncalls' = ncalls + 1
  /\ UNCHANGED <<c, _time_accum_s, s0, mq, ev>>

TankProcessStep(dt) == TankTick("TankProcess.step", TankProcess_step(s, dt), dt)

UpdateTank(dt) == TankTick("_update_tank", _update_tank(s, dt), dt)

TankNext ==
  /\ ncalls < MaxTankTicks
  /\ \/ \E dt \in TankDtSet : TankProcessStep(dt)
     \/ \E dt \in TankDtSet : UpdateTank(dt)

SpecTank == TankInit /\ [][TankNext]_vars

\* ------------------------------------------------------------------------
\* Specification: control messages delivered to iot_sim's PlantController
\* and to waterplant_sim's control_listener
\* ------------------------------------------------------------------------
MaxCmds == 2

Event(command, target, value, auth_ok) ==
  [command |-> command, target |-> target, value |-> value, auth_ok |-> auth_ok,
   source |-> IF auth_ok THEN "HMI" ELSE "REMOTE"]

RpmValues ==
  {IntVal(9999), IntVal(-5), IntVal(3000), FloatVal(2500700), StrVal("3000"),
   StrVal("abc"), NaNVal, NoneVal}

ValveValues == {StrVal("OPEN"), StrVal("closed"), StrVal("HALF"), IntVal(1)}

FilterModeValues == {StrVal("BACKWASH"), StrVal("idle"), StrVal("abc")}

VoutValues ==
  {FloatVal(230000), FloatVal(300000), IntVal(-20), FloatVal(190000),
   StrVal("12.5"), StrVal("abc"), StrVal("nan"), NaNVal, NoneVal}

VoutSteps == {FloatVal(5500), FloatVal(-40000), StrVal("abc"), NaNVal}

\* control events put on iot_sim's event bus
IotEvents ==
  {Event("SET_RPM", tg, v, a) :
     tg \in {"pump_in", "pump_out", "tank"}, v \in RpmValues, a \in BOOLEAN}
  \cup {Event("SET_VALVE", tg, v, a) :
     tg \in {"filters", "tank", "pump_in"}, v \in ValveValues, a \in BOOLEAN}
  \cup {Event("SET_FILTER_MODE", tg, v, a) :
     tg \in {"filters", "pump_in"}, v \in FilterModeValues, a \in BOOLEAN}
  \cup {Event("SET_LEVEL_SENSOR_STATE", "storage", v, FALSE) :
     v \in {StrVal("TAMPER"), StrVal("abc")}}
  \cup {Event("SET_MODE", "pump_in", StrVal("MANUAL"), TRUE)}

\* JSON objects published on waterplant/control/commands
WpMessages ==
  {Event(cmd, tg, NoneVal, a) :
     cmd \in {"PUMP_ON", "PUMP_OFF"}, tg \in {"pump_in", "pump_out", "tank"},
     a \in BOOLEAN}
  \cup {Event("SET_RPM", tg, v, a) :
     tg \in {"pump_in", "pump_out", "tank"}, v \in RpmValues, a \in BOOLEAN}
  \cup {Event("STAB_SET_VOUT", tg, v, a) :
     tg \in {"stabilizer", "pump_in"}, v \in VoutValues, a \in BOOLEAN}
  \cup {Event("STAB_STEP", "stabilizer", v, TRUE) : v \in VoutSteps}
  \cup {Event("STAB_RESET_FAULT", "stabilizer", NoneVal, TRUE),
        Event("SET_MODE", "pump_in", StrVal("MANUAL"), TRUE),
        Event(NoKey, "pump_in", IntVal(3000), TRUE),
        Event("SET_RPM", NoKey, IntVal(3000), TRUE)}

CmdInit ==
  /\ s = PlantState
  /\ c = PlantController
  /\ _time_accum_s = 0
  /\ call = [op |-> "init", dt |-> 0]
  /\ ncalls = 0
  /\ s0 = PlantState
  /\ mq \in {WaterPlantState, waterplant_sim_PlantState}
  /\ ev = NoEvent

Deliver(op, mq1, e) ==
  /\ mq' = mq1
  /\ ev' = e
  /\ call' = [op |-> op, dt |-> 0]
  /\ ncalls' = ncalls + 1
  /\ UNCHANGED <<s, c, _time_accum_s, s0>>

\* a control event reaches the subscribers of iot_sim's event bus
IotControl(e) ==
  /\ mq.program = "iot_sim"
  /\ Deliver("control", publisher_on_control(_on_control(mq, e, ncalls + 1), e), e)

\* a message arrives in waterplant_sim's control_listener
WpControl(data) ==
  /\ mq.program = "waterplant_sim"
  /\ Deliver("control", control_listener(mq, data, ncalls + 1), data)

\* one tick of waterplant_sim's physics loop
WpTick(droop_v, noise, sag_v) ==
  /\ mq.program = "waterplant_sim"
  /\ Deliver("tick", step_physics(mq, droop_v, noise, sag_v), NoEvent)

CmdNext ==
  /\ ncalls < MaxCmds
  /\ \/ \E e \in IotEvents : IotControl(e)
     \/ \E data \in WpMessages : WpControl(data)
     \/ \E droop_v \in {0, 3000}, noise \in {-400, 400}, sag_v \in {147000, 198000} :
          WpTick(droop_v, noise, sag_v)

SpecCmd == CmdInit /\ [][CmdNext]_vars

\* ------------------------------------------------------------------------
\* Specification: the full-tank scenario. The tank starts at 50 %, the IN
\* pump is in AUTO, the OUT pump is held OFF in MANUAL, and the run loop
\* steps the simulator with one tick size until the clock reaches the limit
\* ------------------------------------------------------------------------
MaxFillSeconds == 400

FillDtSet == {1000, 2000, 5000}

FillInit ==
  /\ s = [PlantState EXCEPT
            !.out_pump = apply_manual_pump([PlantState.out_pump EXCEPT !.mode = "MANUAL"],
                                           0, "OFF")]
  /\ c = PlantController
  /\ _time_accum_s = 0
  /\ call = [op |-> "init", dt |-> 0]
  /\ ncalls = 0
  /\ s0 = PlantState
  /\ mq = WaterPlantState
  /\ ev = NoEvent

\* the run goes on until the clock limit, and for one more tick when the
\* last tick has just filled the tank
FillRunning == s.time_s < MaxFillSeconds \/ s.tank.level_pct >= 100000

FillStep ==
  /\ FillRunning
  /\ \E dt \in FillDtSet : (ncalls = 0 \/ dt = call.dt) /\ Step(dt)

FillNext == FillStep

\* every FillStep is a FillTick: ncalls counts the steps
FillTick == FillRunning /\ ncalls' = ncalls + 1

\* the run loop of app.py keeps calling sim_step while it is running
SpecFill == FillInit /\ [][FillNext]_vars /\ WF_ncalls(FillTick)

\* ------------------------------------------------------------------------
\* Specification: the stabilizer. The vin_v slider and the grid run through
\* the thresholds of both stabilizer implementations, and the physics steps
\* ------------------------------------------------------------------------
MaxStabCalls == 3

StabDtSet == {100, 1000}
StabVinSet == {-5, 0, 169, 170, 179, 180, 189, 190, 240, 241, 260, 261, 280, 300}

StabInit ==
  /\ s = PlantState
  /\ c = PlantController
  /\ _time_accum_s = 0
  /\ call = [op |-> "init", dt |-> 0]
  /\ ncalls = 0
  /\ s0 = PlantState
  /\ mq = StabilizerProcess_state
  /\ ev = NoEvent

\* StabilizerProcess.step
StabilizerStep(dt, vin) ==
  /\ mq' = StabilizerProcess_step(mq, vin, s)
  /\ call' = [op |-> "StabilizerProcess.step", dt |-> dt]
  /\ ncalls' = ncalls + 1
  /\ UNCHANGED <<s, c, _time_accum_s, s0, ev>>

StabNext ==
  /\ ncalls < MaxStabCalls
  /\ \/ \E dt \in StabDtSet : Step(dt)
     \/ \E v \in StabVinSet : SetVin(v)
     \/ \E dt \in StabDtSet, vin \in StabVinSet : StabilizerStep(dt, vin)

SpecStab == StabInit /\ [][StabNext]_vars

\* ------------------------------------------------------------------------
\* Specification: the telemetry publishers and the MQTT broker.
\* waterplant_sim.publisher runs the physics and the telemetry in one loop
\* inside its broker connection; iot_sim runs a clock, the PlantController
\* and mqtt_publisher as three tasks joined by the EventBus queues.
\* mq holds the state of the tasks, ev the seq each device has just emitted.
\* ------------------------------------------------------------------------
MaxPubTicks == 3
MaxQueue == 2
MaxSeq == 4

\* the devices of waterplant_sim.publisher, in publishing order
WpDevices == <<"stabilizer", "pump_in", "pump_out", "filter_system", "water_storage">>

\* the --elements list given to iot_sim
IotElements == <<"pump_in", "water_storage">>

\* the values random.randint(burst_len_min, burst_len_max) may return
BurstLens == {1, 2}

Range(f) == {f[i] : i \in DOMAIN f}

Index(f, d) == CHOOSE i \in DOMAIN f : f[i] = d

\* publish_errors counts the publish calls that raised; the code only logs them
waterplant_sim_publisher ==
  [program |-> "waterplant_sim", broker |-> TRUE, connected |-> FALSE,
   tick_n |-> 0, publish_errors |-> 0,
   seq |-> [d \in Range(WpDevices) |-> 0],
   last |-> [d \in Range(WpDevices) |-> 0]]

iot_sim_tasks ==
  [program |-> "iot_sim", broker |-> TRUE, connected |-> FALSE,
   tick_n |-> 0, publish_errors |-> 0,
   qc |-> 0, qp |-> 0, net_burst |-> 0, burst_left |-> 0,
   seq |-> [d \in Range(IotElements) |-> 0],
   last |-> [d \in Range(IotElements) |-> 0]]

\* no payload is emitted
NoEmit == [d \in DOMAIN mq.seq |-> 0]

PubInit ==
  /\ s = PlantState
  /\ c = PlantController
  /\ _time_accum_s = 0
  /\ call = [op |-> "init", dt |-> 0]
  /\ ncalls = 0
  /\ s0 = PlantState
  /\ mq \in {waterplant_sim_publisher, iot_sim_tasks}
  /\ ev = [d \in DOMAIN mq.seq |-> 0]

Pub(op, mq1, emit) ==
  /\ mq' = mq1
  /\ ev' = emit
  /\ call' = [op |-> op, dt |-> 0]
  /\ UNCHANGED <<s, c, _time_accum_s, ncalls, s0>>

\* the broker becomes unreachable, or reachable again
BrokerSet(up) ==
  /\ mq.broker # up
  /\ Pub("broker", [mq EXCEPT !.broker = up], NoEmit)

\* a faulty variant of Connect: the seq counters start again on every connection
Connect_resets_seq ==
  /\ ~mq.connected
  /\ Pub("connect", [mq EXCEPT !.connected = mq.broker,
                               !.seq = [d \in DOMAIN mq.seq |-> 0]], NoEmit)

\* one pass of the publisher's connection loop: the Client connects, or raises
\* MqttError and the task sleeps for a second
Connect ==
  /\ ~mq.connected
  /\ Pub("connect", [mq EXCEPT !.connected = mq.broker], NoEmit)

\* one pass of waterplant_sim.publisher's inner loop. Every publish succeeds
\* (k = 0) or the k-th publish raises, which ends the connection
WpPublish(k) ==
  /\ mq.program = "waterplant_sim"
  /\ mq.connected
  /\ mq.tick_n < MaxPubTicks
  /\ (k = 0) <=> mq.broker
  /\ LET seq1 == [d \in DOMAIN mq.seq |-> mq.seq[d] + 1]
         written(d) == k = 0 \/ Index(WpDevices, d) <= k
     IN Pub("publish",
            [mq EXCEPT !.tick_n = @ + 1,
                       !.seq = seq1,
                       !.last = [d \in DOMAIN mq.seq |->
                                   IF written(d) THEN seq1[d] ELSE mq.last[d]],
                       !.connected = (k = 0),
                       !.publish_errors = IF k = 0 THEN @ ELSE 1],
            [d \in DOMAIN mq.seq |-> IF written(d) THEN seq1[d] ELSE 0])

\* clock_task: EventBus.publish puts the tick on every subscriber's queue and
\* drops it for a subscriber whose queue is full
IotClock ==
  /\ mq.program = "iot_sim"
  /\ mq.tick_n < MaxPubTicks
  /\ Pub("clock", [mq EXCEPT !.qc = min(@ + 1, MaxQueue),
                             !.qp = min(@ + 1, MaxQueue)], NoEmit)

\* PlantController.run takes a tick from its queue: _on_tick
IotOnTick ==
  /\ mq.program = "iot_sim"
  /\ mq.qc > 0
  /\ mq.tick_n < MaxPubTicks
  /\ Pub("on_tick", [mq EXCEPT !.qc = @ - 1, !.tick_n = @ + 1], NoEmit)

\* PlantController._on_security
IotSecurity(burst) ==
  /\ mq.program = "iot_sim"
  /\ mq.net_burst # burst
  /\ Pub("security", [mq EXCEPT !.net_burst = burst], NoEmit)

\* mqtt_publisher takes a tick from its queue and emits every element in turn;
\* every publish succeeds (k = 0) or the k-th raises
IotPublish(k, burst_len) ==
  /\ mq.program = "iot_sim"
  /\ mq.connected
  /\ mq.qp > 0
  /\ mq.burst_left = 0
  /\ \A d \in DOMAIN mq.seq : mq.seq[d] < MaxSeq
  /\ (k = 0) <=> mq.broker
  /\ LET reached(d) == k = 0 \/ Index(IotElements, d) <= k
         seq1 == [d \in DOMAIN mq.seq |->
                    IF reached(d) THEN mq.seq[d] + 1 ELSE mq.seq[d]]
     IN Pub("publish",
            [mq EXCEPT !.qp = @ - 1,
                       !.seq = seq1,
                       !.last = [d \in DOMAIN mq.seq |->
                                   IF reached(d) THEN seq1[d] ELSE mq.last[d]],
                       !.connected = (k = 0),
                       !.publish_errors = IF k = 0 THEN @ ELSE 1,
                       !.burst_left = IF k = 0 /\ mq.net_burst = 1
                                        THEN burst_len ELSE 0],
            [d \in DOMAIN mq.seq |-> IF reached(d) THEN seq1[d] ELSE 0])

\* one extra emission of the burst loop, for a randomly chosen element
IotBurst(element) ==
  /\ mq.program = "iot_sim"
  /\ mq.connected
  /\ mq.burst_left > 0
  /\ mq.seq[element] < MaxSeq
  /\ Pub("burst",
         [mq EXCEPT !.seq[element] = @ + 1,
                    !.last[element] = mq.seq[element] + 1,
                    !.connected = mq.broker,
                    !.publish_errors = IF mq.broker THEN @ ELSE 1,
                    !.burst_left = IF mq.broker THEN @ - 1 ELSE 0],
         [d \in DOMAIN mq.seq |-> IF d = element THEN mq.seq[d] + 1 ELSE 0])

PubNext ==
  \/ \E up \in BOOLEAN : BrokerSet(up)
  \/ Connect
  \/ \E k \in 0..Len(WpDevices) : WpPublish(k)
  \/ IotClock
  \/ IotOnTick
  \/ \E burst \in {0, 1} : IotSecurity(burst)
  \/ \E k \in 0..Len(IotElements), burst_len \in BurstLens : IotPublish(k, burst_len)
  \/ \E element \in Range(IotElements) : IotBurst(element)

\* the event loop keeps running every task that can take a step
PubFair ==
  /\ WF_vars(Connect)
  /\ WF_vars(\E k \in 0..Len(WpDevices) : WpPublish(k))
  /\ WF_vars(IotClock)
  /\ WF_vars(IotOnTick)

SpecPub == PubInit /\ [][PubNext]_vars /\ PubFair

\* ------------------------------------------------------------------------
\* Specification: sustained operation at rpm_max. One pump is held ON in
\* MANUAL at rpm_desired = rpm_max, the other OFF, the stabilizer is NORMAL,
\* and the run loop steps the simulator with one tick size
\* ------------------------------------------------------------------------
MaxHeatSeconds == 1200

HeatDtSet == {100, 1000, 5000, 60000}

HeatInit ==
  /\ \E which \in Pumps :
       LET other == IF which = "in_pump" THEN "out_pump" ELSE "in_pump"
           held(p) == apply_manual_pump([p EXCEPT !.mode = "MANUAL"], p.rpm_max, "ON")
           off(p) == apply_manual_pump([p EXCEPT !.mode = "MANUAL"], 0, "OFF")
       IN s = [PlantState EXCEPT ![which] = held(PlantState[which]),
                                 ![other] = off(PlantState[other])]
  /\ c = PlantController
  /\ _time_accum_s = 0
  /\ call = [op |-> "init", dt |-> 0]
  /\ ncalls = 0
  /\ s0 = PlantState
  /\ mq = WaterPlantState
  /\ ev = NoEvent

HeatRunning == s.time_s < MaxHeatSeconds

HeatNext ==
  /\ HeatRunning
  /\ \E dt \in HeatDtSet : (ncalls = 0 \/ dt = call.dt) /\ Step(dt)

\* every step of HeatNext is a HeatTick: ncalls counts the steps
HeatTick == HeatRunning /\ ncalls' = ncalls + 1

SpecHeat == HeatInit /\ [][HeatNext]_vars /\ WF_ncalls(HeatTick)

\* ------------------------------------------------------------------------
\* Specification: iot_sim.py's EventBus with its publishers (clock_task,
\* SecurityAndAttackGenerator) and its subscribers (PlantController,
\* SecurityAndAttackGenerator, mqtt_publisher).  The tasks run on one
\* asyncio event loop: a task is switched only where it suspends at an
\* await, so one action is the code between two suspensions.  The bus lock
\* is never held across a suspension, hence acquiring it never suspends and
\* a publish is one step.  An event's ts is modelled by its seq.
\* ------------------------------------------------------------------------
MaxBusEvents == 5
MaxBusQueue == 2
attack_rpm_delta_min == 300

BusSubscribers == {"controller", "secgen", "publisher"}

\* the bus, the shared WaterPlantState and, per subscriber, the event it
\* took last from its queue; physics is what the last tick update read
EventBus ==
  [program |-> "iot_sim_bus",
   _seq |-> 0,
   _subs |-> [sub \in BusSubscribers |-> <<>>],
   taken |-> [sub \in BusSubscribers |-> [type |-> "none", seq |-> 0, data |-> NoEvent]],
   state |-> WaterPlantState,
   net_burst |-> 0,
   tick_n |-> 0,
   clock_n |-> 0,
   physics |-> [tick_n |-> 0, pump_in_rpm |-> WaterPlantState.pump_in_rpm,
                pump_out_rpm |-> WaterPlantState.pump_out_rpm,
                filter_mode |-> WaterPlantState.filter_mode,
                valves_state |-> WaterPlantState.valves_state,
                tank_valves_state |-> WaterPlantState.tank_valves_state]]

\* a faulty variant of EventBus.publish: a full queue drops the event for
\* every subscriber
EventBus_publish_drops_for_all(bus, type, data) ==
  LET seq == bus._seq + 1
      event == [type |-> type, seq |-> seq, data |-> data]
      full == \E sub \in BusSubscribers : Len(bus._subs[sub]) >= MaxBusQueue
  IN [bus EXCEPT !._seq = seq,
                 !._subs = [sub \in BusSubscribers |->
                              IF full THEN bus._subs[sub]
                              ELSE Append(bus._subs[sub], event)]]

\* EventBus.publish: stamp the event, then put_nowait it on every queue,
\* passing over a queue that is full
EventBus_publish(bus, type, data) ==
  LET seq == bus._seq + 1
      event == [type |-> type, seq |-> seq, data |-> data]
  IN [bus EXCEPT !._seq = seq,
                 !._subs = [sub \in BusSubscribers |->
                              IF Len(bus._subs[sub]) >= MaxBusQueue
                                THEN bus._subs[sub]
                                ELSE Append(bus._subs[sub], event)]]

\* a faulty variant of _on_tick: the update is left half done (the tick is
\* counted, the physics is not yet computed)
_on_tick_half(bus) ==
  [bus EXCEPT !.tick_n = bus.tick_n + 1]

\* PlantController._on_tick: count the tick and compute the physics from
\* the setpoints and valve states held in the state
_on_tick(bus) ==
  [bus EXCEPT !.tick_n = bus.tick_n + 1,
              !.physics = [tick_n |-> bus.tick_n + 1,
                           pump_in_rpm |-> bus.state.pump_in_rpm,
                           pump_out_rpm |-> bus.state.pump_out_rpm,
                           filter_mode |-> bus.state.filter_mode,
                           valves_state |-> bus.state.valves_state,
                           tank_valves_state |-> bus.state.tank_valves_state]]

\* Queue.get by subscriber sub: the head leaves the queue
Queue_get(bus, sub) ==
  [bus EXCEPT !._subs[sub] = Tail(bus._subs[sub]),
              !.taken[sub] = Head(bus._subs[sub])]

\* draws of SecurityAndAttackGenerator on one tick: the burst flag of the
\* security event and the control events, in the order of the three draws
AttackEvents(bus) ==
  LET rpm == Event("SET_RPM", "pump_in",
                   IntVal(py_clamp([nan |-> FALSE,
                                    n |-> bus.state.pump_in_rpm + attack_rpm_delta_min],
                                   0, 4000)), FALSE)
      valve == Event("SET_VALVE", "filters", StrVal("CLOSED"), FALSE)
      spoof == Event("SET_LEVEL_SENSOR_STATE", "storage", StrVal("TAMPER"), FALSE)
  IN {[burst |-> 0, control |-> <<>>], [burst |-> 1, control |-> <<rpm>>],
      [burst |-> 0, control |-> <<spoof>>],
      [burst |-> 0, control |-> <<valve, spoof>>]}

RECURSIVE publish_all(_, _)
publish_all(bus, events) ==
  IF events = <<>> THEN bus
  ELSE publish_all(EventBus_publish(bus, "control", Head(events)), Tail(events))

BusInit ==
  /\ s = PlantState
  /\ c = PlantController
  /\ _time_accum_s = 0
  /\ call = [op |-> "init", dt |-> 0]
  /\ ncalls = 0
  /\ s0 = PlantState
  /\ mq = EventBus
  /\ ev = NoEvent

\* clock_task: publish the next tick event (the run is cut off after
\* MaxBusEvents events)
ClockTick ==
  /\ mq._seq < MaxBusEvents
  /\ Pub("clock_task",
         EventBus_publish([mq EXCEPT !.clock_n = mq.clock_n + 1], "tick",
                          [tick |-> mq.clock_n + 1]), ev)

\* PlantController.run: take one event and dispatch it
ControllerRun ==
  /\ mq._subs["controller"] # <<>>
  /\ LET event == Head(mq._subs["controller"])
         bus == Queue_get(mq, "controller")
     IN Pub("controller",
            IF event.type = "tick" THEN _on_tick(bus)
            ELSE IF event.type = "control"
              THEN [bus EXCEPT !.state = _on_control(bus.state, event.data, event.seq)]
            ELSE [bus EXCEPT !.net_burst = event.data.burst],
            ev)

\* SecurityAndAttackGenerator.run: take one event; on a tick publish a
\* security event and then the attack events drawn
SecgenRun(attack) ==
  /\ mq._subs["secgen"] # <<>>
  /\ LET event == Head(mq._subs["secgen"])
         bus == Queue_get(mq, "secgen")
     IN IF event.type # "tick"
          THEN attack.control = <<>> /\ Pub("secgen", bus, ev)
          ELSE mq._seq + 1 + Len(attack.control) <= MaxBusEvents
               /\ Pub("secgen",
                      publish_all(EventBus_publish(bus, "security",
                                                   [failed_auth |-> 0,
                                                    burst |-> attack.burst]),
                                  attack.control), ev)

\* mqtt_publisher: take one event; a control event sets the level sensor
\* marker, a tick event sends telemetry
PublisherRun ==
  /\ mq._subs["publisher"] # <<>>
  /\ LET event == Head(mq._subs["publisher"])
         bus == Queue_get(mq, "publisher")
     IN Pub("publisher",
            IF event.type = "control"
              THEN [bus EXCEPT !.state = publisher_on_control(bus.state, event.data)]
              ELSE bus,
            ev)

BusNext ==
  \/ ClockTick
  \/ ControllerRun
  \/ \E attack \in AttackEvents(mq) : SecgenRun(attack)
  \/ PublisherRun

SpecBus == BusInit /\ [][BusNext]_vars

\* ------------------------------------------------------------------------
\* Specification: the plant left to its controller (both pumps AUTO, the
\* stabilizer NORMAL, no operator input) from a range of levels and wears,
\* ticked with one dt for as long as the clock is below MaxWashSeconds, a
\* backwash is running, the OUT pump is blocked by the filter or it is OFF
\* ------------------------------------------------------------------------
MaxWashSeconds == 100

WashInit ==
  /\ \E tank_val \in LatchTankSet \cup {100000}, wear_val \in LatchWearSet \cup {0} :
       s = [PlantState EXCEPT
              !.tank.level_liters = fdiv(PlantState.tank.capacity_liters * (tank_val \div 100), 1000),
              !.tank.level_pct = tank_val,
              !.filter.wear_pct = wear_val]
  /\ c = PlantController
  /\ _time_accum_s = 0
  /\ call = [op |-> "init", dt |-> 0]
  /\ ncalls = 0
  /\ s0 = PlantState
  /\ mq = WaterPlantState
  /\ ev = NoEvent

WashRunning ==
  \/ s.time_s < MaxWashSeconds
  \/ s.filter.mode = "BACKWASH"
  \/ c.out_blocked_by_filter
  \/ s.out_pump.state = "OFF"

WashNext ==
  /\ WashRunning
  /\ \E dt \in FillDtSet : (ncalls = 0 \/ dt = call.dt) /\ Step(dt)

\* every step of WashNext is a WashTick: ncalls counts the steps
WashTick == WashRunning /\ ncalls' = ncalls + 1

\* the run loop of app.py keeps calling sim_step while it is running
SpecWash == WashInit /\ [][WashNext]_vars /\ WF_ncalls(WashTick)

\* ------------------------------------------------------------------------
\* Specification: supply faults and recoveries, with the OUT pump in AUTO
\* or taken to MANUAL and switched ON by the operator
\* ------------------------------------------------------------------------
MaxFaultCalls == 6

FaultNext ==
  /\ ncalls < MaxFaultCalls
  /\ \/ \E dt \in LatchDtSet : Step(dt)
     \/ \E v \in {170, 220} : SetVin(v)
     \/ \E m \in PumpModes : SetPumpMode("out_pump", m)
     \/ ManualPump("out_pump", 4000, "ON")

SpecFault == Init /\ [][FaultNext]_vars

\* ------------------------------------------------------------------------
\* Specification: the clock of PlantSimulator.step in floating point.  The
\* accumulator is a float: adding a dt that is not a multiple of 1/8 s
\* (0.1, 0.3, 0.7) rounds, and the float can then lie just below the value
\* exact arithmetic gives.  k.accum is the exact value in ms, k.short says
\* that the float lies just below it, k.sum is the sum of the positive dt.
\* ------------------------------------------------------------------------
MaxClockCalls == 4

ClockDtSet == {-1000, 0, 100, 250, 300, 700, 1500}

\* a faulty variant of clock_float: the remainder is dropped when the clock
\* advances
clock_float_drops_remainder(k, dt, short) ==
  IF dt <= 0 THEN k
  ELSE LET a == k.accum + dt
           short1 == IF ~k.short /\ dt % 125 = 0 THEN FALSE ELSE short
           inc == IF short1 /\ a % 1000 = 0 THEN idiv(a, 1000) - 1 ELSE idiv(a, 1000)
       IN IF inc >= 1
            THEN [time_s |-> k.time_s + inc, accum |-> 0, short |-> FALSE,
                  sum |-> k.sum + dt]
            ELSE [time_s |-> k.time_s, accum |-> a, short |-> short1,
                  sum |-> k.sum + dt]

\* PlantSimulator.step, the dt guard and step 3): _time_accum_s += dt; when
\* it is >= 1.0, inc = int(_time_accum_s) goes to time_s and is taken off
clock_float(k, dt, short) ==
  IF dt <= 0 THEN k
  ELSE LET a == k.accum + dt
           short1 == IF ~k.short /\ dt % 125 = 0 THEN FALSE ELSE short
           inc == IF short1 /\ a % 1000 = 0 THEN idiv(a, 1000) - 1 ELSE idiv(a, 1000)
       IN IF inc >= 1
            THEN [time_s |-> k.time_s + inc, accum |-> a - inc * 1000, short |-> short1,
                  sum |-> k.sum + dt]
            ELSE [time_s |-> k.time_s, accum |-> a, short |-> short1,
                  sum |-> k.sum + dt]

ClockInit ==
  /\ s = PlantState
  /\ c = PlantController
  /\ _time_accum_s = 0
  /\ call = [op |-> "init", dt |-> 0]
  /\ ncalls = 0
  /\ s0 = PlantState
  /\ mq = [program |-> "PlantSimulator", time_s |-> PlantState.time_s, accum |-> 0,
           short |-> FALSE, sum |-> 0]
  /\ ev = NoEvent

ClockNext ==
  /\ ncalls < MaxClockCalls
  /\ \E dt \in ClockDtSet, short \in BOOLEAN :
       /\ mq' = [clock_float(mq, dt, short) EXCEPT !.program = "PlantSimulator"]
       /\ call' = [op |-> "step", dt |-> dt]
       /\ ncalls' = ncalls + 1
       /\ UNCHANGED <<s, c, _time_accum_s, s0, ev>>

SpecClock == ClockInit /\ [][ClockNext]_vars

\* ------------------------------------------------------------------------
\* Claims
\* ------------------------------------------------------------------------

\* C1. PlantSimulator.step(dt) with dt <= 0 is a no-op: the PlantState, the
\* controller's timers and latch, and the simulator's clock accumulator are
\* all left as they were.
C1_StepNoOp ==
  [][(call'.op = "step" /\ call'.dt <= 0 /\ ncalls' = ncalls + 1)
       => (s' = s /\ c' = c /\ _time_accum_s' = _time_accum_s)]_vars

\* a step with negative dt has been taken on a plant that has already run
C1_Witness ==
  /\ call.op = "step" /\ call.dt < 0
  /\ s.time_s > 0 /\ s.in_pump.rpm_actual > 0

\* C2. Bounds: in every reachable state 0 <= level_pct <= 100,
\* 0 <= wear_pct <= 100, 0 <= rpm_actual <= rpm_max and
\* motor_temp_c >= ambient, for both pumps.
C2_Bounds ==
  /\ 0 <= s.tank.level_pct /\ s.tank.level_pct <= 100000
  /\ 0 <= s.filter.wear_pct /\ s.filter.wear_pct <= 100000
  /\ \A which \in Pumps :
       /\ 0 <= s[which].rpm_actual /\ s[which].rpm_actual <= s[which].rpm_max
       /\ s[which].motor_temp_c >= s.env.ambient_temperature_c

\* a tick has filled the tank to the brim while water was still flowing in
C2_Witness ==
  /\ call.op = "step" /\ call.dt > 0
  /\ s.tank.level_liters = s.tank.capacity_liters
  /\ s.tank.in_flow_lpm > 0
  /\ s.in_pump.rpm_actual > 0

\* C3. Slew rate: a tick with dt > 0 changes rpm_desired of a pump in AUTO
\* by at most slew_per_second * dt (800 rpm/s IN, 900 rpm/s OUT), whatever
\* the level, wear, filter mode or latch.
C3_SlewBound ==
  [][(call'.op = "step" /\ call'.dt > 0 /\ ncalls' = ncalls + 1)
       => /\ s.in_pump.mode = "AUTO" =>
               abs(s'.in_pump.rpm_desired - s.in_pump.rpm_desired) * 1000
                 <= in_rpm_slew_per_s * call'.dt
          /\ s.out_pump.mode = "AUTO" =>
               abs(s'.out_pump.rpm_desired - s.out_pump.rpm_desired) * 1000
                 <= out_rpm_slew_per_s * call'.dt]_vars

\* the tank is full, the filter went to BACKWASH, and the IN setpoint is
\* still on its way down: the limiter is what holds it above the target 0
C3_Witness ==
  /\ call.op = "step" /\ call.dt > 0
  /\ s.in_pump.mode = "AUTO"
  /\ s.filter.mode = "BACKWASH"
  /\ s.in_pump.rpm_desired > 0 /\ s.in_pump.rpm_desired < in_rpm_nom

\* C8. Overheat: at the end of every step with dt > 0, a pump whose
\* motor_temp_c >= hard_limit_c has state FAULT and
\* rpm_actual = flow_lpm = pressure_bar = power_kw = 0.
C8_OverheatFault ==
  (call.op = "step" /\ call.dt > 0) =>
    \A which \in Pumps :
      s[which].motor_temp_c >= s[which].hard_limit_c =>
        /\ s[which].state = "FAULT"
        /\ s[which].rpm_actual = 0 /\ s[which].flow_lpm = 0
        /\ s[which].pressure_bar = 0 /\ s[which].power_kw = 0

\* a tick has driven the IN motor to the hard limit
C8_Witness ==
  /\ call.op = "step" /\ call.dt > 0
  /\ s.in_pump.motor_temp_c >= s.in_pump.hard_limit_c
  /\ s.in_pump.state = "FAULT"

C5_MassBalance ==
  ncalls >= 1 =>
    s.tank.level_liters =
      clamp(s0.tank.level_liters
              + fdiv((s0.tank.in_flow_lpm - s0.tank.out_flow_lpm) * ncalls * call.dt, 600),
            0, s0.tank.capacity_liters)

\* the tank has filled to its capacity on the third tick or later: the first
\* two ticks were not clamped, the sum of the ticks is above the capacity
C5_Witness ==
  /\ ncalls >= 3
  /\ s.tank.level_liters = s.tank.capacity_liters
  /\ s0.tank.level_liters
       + fdiv((s0.tank.in_flow_lpm - s0.tank.out_flow_lpm) * 2 * call.dt, 600)
     < s0.tank.capacity_liters
  /\ s0.tank.level_liters
       + fdiv((s0.tank.in_flow_lpm - s0.tank.out_flow_lpm) * ncalls * call.dt, 600)
     > s0.tank.capacity_liters
  /\ s0.tank.out_flow_lpm > 0

\* C6. Full-tank scenario: from 50 % with the IN pump in AUTO, the OUT pump
\* OFF, the filter in FILTER and the stabilizer NORMAL, repeated steps
\* eventually bring level_pct to 100; level_pct never exceeds 100; every tick
\* that observes level_pct >= 100 applies the target 0 to the IN pump
\* (rpm_desired moves down by the slew step, or to 0), and rpm_desired then
\* reaches 0 with the pump OFF.
C6_FullTank ==
  /\ <>(s.tank.level_pct >= 100000)
  /\ [](s.tank.level_pct <= 100000)
  /\ [][(s.tank.level_pct >= 100000 /\ call'.op = "step" /\ call'.dt > 0)
          => /\ s'.in_pump.rpm_desired
                  = max(0, s.in_pump.rpm_desired
                             - fdiv(in_rpm_slew_per_s * call'.dt, 1000))
             /\ s'.in_pump.rpm_desired < in_rpm_min
             /\ s'.in_pump.state = "OFF"
             /\ s'.tank.in_flow_lpm = 0]_vars
  /\ (s.tank.level_pct >= 100000)
       ~> (s.in_pump.rpm_desired = 0 /\ s.in_pump.state = "OFF"
             /\ s.in_pump.rpm_actual = 0)

\* a tick has observed the full tank: the IN pump is OFF with rpm_desired 0,
\* the OUT pump is still OFF and the stabilizer NORMAL
C6_Witness ==
  /\ call.op = "step" /\ call.dt > 0
  /\ s.time_s > 300
  /\ s.tank.level_pct > 99000
  /\ s.filter.mode = "BACKWASH"
  /\ s.in_pump.mode = "AUTO" /\ s.in_pump.state = "OFF" /\ s.in_pump.rpm_desired = 0
  /\ s.out_pump.state = "OFF"
  /\ s.stabilizer.mode = "NORMAL"

\* C7. SET_RPM clamping: a SET_RPM command addressed to pump_in or pump_out
\* whose value int() accepts stores int(value) clamped to [0, rpm_max] as that
\* pump's setpoint (9999 stores 4000), in iot_sim and in waterplant_sim; no
\* reachable state holds a pump setpoint outside [0, rpm_max].
C7_SetRpmClamped ==
  /\ [](mq.pump_in_rpm \in 0..pump_max_rpm /\ mq.pump_out_rpm \in 0..pump_max_rpm)
  /\ [][(/\ call'.op = "control"
         /\ ev'.command = "SET_RPM"
         /\ ev'.target \in {"pump_in", "pump_out"}
         /\ py_int(ev'.value).ok)
          => LET n == py_int(ev'.value).n
                 stored == IF ev'.target = "pump_in" THEN mq'.pump_in_rpm
                           ELSE mq'.pump_out_rpm
             IN stored = (IF n < 0 THEN 0 ELSE IF n > pump_max_rpm THEN pump_max_rpm ELSE n)]_vars

\* the second command handled was SET_RPM pump_in 9999: the setpoint is 4000
C7_Witness ==
  /\ call.op = "control" /\ ncalls = 2
  /\ ev.command = "SET_RPM" /\ ev.target = "pump_in" /\ ev.value = IntVal(9999)
  /\ mq.pump_in_rpm = pump_max_rpm
  /\ mq.pump_out_rpm = 0

\* C9. A command that is ignored (no handler for its command and target, or
\* a value that fails validation) leaves last_command as it was.
C9_IgnoredNotRecorded ==
  [][(call'.op = "control" /\ ignored(mq.program, ev'))
       => mq'.last_command = mq.last_command]_vars

\* C10. Invalid commands cause no mutation: a command with an unrecognised
\* command/target pair, a non-numeric RPM or voltage value, a valve value
\* other than OPEN/CLOSED or an unknown filter mode changes no pump state,
\* RPM setpoint, valve state, filter mode or stabilizer setpoint.
C10_InvalidNoMutation ==
  [][(/\ call'.op = "control"
      /\ LET e == ev'
             non_numeric ==
               \/ e.value.t \in {"none", "nan"}
               \/ e.value.t = "str" /\ e.value.v \notin DOMAIN FloatLiterals
         IN \/ e.command \notin {"SET_RPM", "SET_VALVE", "SET_FILTER_MODE",
                                 "SET_LEVEL_SENSOR_STATE", "PUMP_ON", "PUMP_OFF",
                                 "STAB_SET_VOUT", "STAB_STEP", "STAB_RESET_FAULT"}
            \/ e.command \in {"SET_RPM", "PUMP_ON", "PUMP_OFF"}
                 /\ e.target \notin {"pump_in", "pump_out"}
            \/ e.command = "SET_VALVE" /\ e.target \notin {"filters", "tank"}
            \/ e.command \in {"SET_RPM", "STAB_SET_VOUT", "STAB_STEP"} /\ non_numeric
            \/ e.command = "SET_VALVE"
                 /\ ~(e.value.t = "str" /\ upper(e.value.v) \in {"OPEN", "CLOSED"})
            \/ e.command = "SET_FILTER_MODE"
                 /\ ~(e.value.t = "str"
                        /\ upper(e.value.v) \in {"FILTER", "BACKWASH", "IDLE"}))
       => [mq' EXCEPT !.last_command = NoCommand]
            = [mq EXCEPT !.last_command = NoCommand]]_vars

\* C11. Stabilizer output: after every physics step the stabilizer in FAULT
\* has output voltage 0 and the stabilizer in BYPASS has the output voltage
\* equal to the input voltage, whatever the input voltage is; this holds for
\* PlantProcess._update_stabilizer and for StabilizerProcess.step.
C11_StabilizerOutput ==
  /\ (call.op = "step" /\ call.dt > 0) =>
       /\ s.stabilizer.mode = "FAULT" => s.stabilizer.vout_v = 0
       /\ s.stabilizer.mode = "BYPASS" => s.stabilizer.vout_v = s.stabilizer.vin_v
  /\ call.op = "StabilizerProcess.step" =>
       /\ mq.mode = "FAULT" => mq.output_voltage = 0
       /\ mq.mode = "BYPASS" => mq.output_voltage = mq.input_voltage

\* both implementations have stepped into FAULT from a live output: the core
\* on an input above the bypass band, StabilizerProcess on a low grid
C11_Witness ==
  /\ call.op = "step" /\ call.dt > 0
  /\ s.stabilizer.mode = "FAULT" /\ s.stabilizer.vin_v > bypass_v_max
  /\ s.stabilizer.vout_v = 0
  /\ mq.program = "StabilizerProcess" /\ mq.mode = "FAULT"
  /\ mq.input_voltage > 0 /\ mq.output_voltage = 0

\* C12. OFF means zero: at the end of every step with dt > 0, a pump whose
\* run state is OFF has rpm_actual, flow, pressure and power all equal to 0;
\* this holds for both pumps, in AUTO and in MANUAL, and for a pump the
\* stabilizer's FAULT has switched OFF in that tick.
C12_OffIsZero ==
  (call.op = "step" /\ call.dt > 0) =>
    \A which \in Pumps :
      s[which].state = "OFF" =>
        /\ s[which].rpm_actual = 0
        /\ s[which].flow_lpm = 0
        /\ s[which].pressure_bar = 0
        /\ s[which].power_kw = 0

\* a tick has switched OFF a pump that MANUAL holds at a positive setpoint
\* (the stabilizer is in FAULT), while the other pump is OFF in AUTO
C12_Witness ==
  /\ call.op = "step" /\ call.dt > 0
  /\ s.stabilizer.mode = "FAULT"
  /\ s.in_pump.mode = "MANUAL" /\ s.in_pump.rpm_desired > 0
  /\ s.in_pump.state = "OFF" /\ s.in_pump.rpm_actual = 0 /\ s.in_pump.flow_lpm = 0
  /\ s.out_pump.mode = "AUTO" /\ s.out_pump.state = "OFF" /\ s.out_pump.power_kw = 0

\* C13. FAULT means zero: whenever a pump is in FAULT at the end of a tick,
\* its rpm_actual, flow, pressure and power are 0; this holds in AUTO and in
\* MANUAL, and on every tick on which the state remains FAULT.
C13_FaultIsZero ==
  (call.op = "step" /\ call.dt > 0) =>
    \A which \in Pumps :
      s[which].state = "FAULT" =>
        /\ s[which].rpm_actual = 0
        /\ s[which].flow_lpm = 0
        /\ s[which].pressure_bar = 0
        /\ s[which].power_kw = 0

\* C14. Wear direction: a tick with dt > 0 does not increase the filter wear
\* while the filter is in BACKWASH, increases it only in FILTER with a
\* positive IN flow, and leaves it unchanged in IDLE and in FILTER with zero
\* flow; from every reachable wear, including a wear below the post-backwash
\* floor. The mode and the flow are those the tick's filter update sees.
C14_WearDirection ==
  [][(call'.op = "step" /\ call'.dt > 0 /\ ncalls' = ncalls + 1) =>
       LET Q == IF s'.in_pump.state = "ON" THEN s'.in_pump.flow_lpm ELSE 0
       IN /\ s'.filter.mode = "BACKWASH" => s'.filter.wear_pct <= s.filter.wear_pct
          /\ s'.filter.wear_pct > s.filter.wear_pct
               => (s'.filter.mode = "FILTER" /\ Q > 0)
          /\ (s'.filter.mode = "IDLE" \/ (s'.filter.mode = "FILTER" /\ Q = 0))
               => s'.filter.wear_pct = s.filter.wear_pct]_vars

\* C15. Single writer: exactly one component ever writes the plant state; the
\* telemetry publisher, like the generators, the clock, the viewer and the
\* user interface, only reads it or sends commands. For iot_sim: once a
\* control event has been handled by every subscriber of the event bus, the
\* plant state is what PlantController._on_control made of it.
C15_SingleWriter ==
  [][(call'.op = "control" /\ mq.program = "iot_sim" /\ ncalls' = ncalls + 1)
       => mq' = _on_control(mq, ev', ncalls + 1)]_vars

\* C16. Telemetry consumers never stall the simulation: with the broker
\* unreachable, a publish failing or the publisher's queue full, the physics
\* ticks go on; from every tick count below the end of the run the tick count
\* advances.
C16_TicksAdvance ==
  \A n \in 0..(MaxPubTicks - 1) : (mq.tick_n = n) ~> (mq.tick_n > n)

C18_ManualFrame ==
  [][(call'.op = "step" /\ call'.dt > 0 /\ ncalls' = ncalls + 1) =>
       \A draw \in Draws(call'.dt), which \in Pumps :
         LET w == compute([s |-> s, c |-> c], call'.dt, draw)
             other == IF which = "in_pump" THEN "out_pump" ELSE "in_pump"
             auto == compute([s |-> [s EXCEPT ![other].mode = "AUTO"], c |-> c],
                             call'.dt, draw)
             manual == compute([s |-> [s EXCEPT ![other].mode = "MANUAL"], c |-> c],
                               call'.dt, draw)
         IN /\ s[which].mode = "MANUAL" =>
                 /\ w.s[which] = s[which]
                 /\ s'[which].rpm_desired = s[which].rpm_desired
            /\ auto.s[which] = manual.s[which]]_vars

\* a tick has passed over an IN pump that MANUAL holds in FAULT at 500 rpm,
\* values the controller never writes, while the OUT pump runs in AUTO
C18_Witness ==
  /\ call.op = "step" /\ call.dt > 0
  /\ s.in_pump.mode = "MANUAL" /\ s.in_pump.state = "FAULT"
  /\ s.in_pump.rpm_desired = 500
  /\ s.out_pump.mode = "AUTO" /\ s.out_pump.state = "ON" /\ s.out_pump.rpm_desired > 0

\* C19. The OUT-block interlock applies in MANUAL too: on every tick, in
\* AUTO and in MANUAL, the conditions that set and clear the latch are
\* evaluated, and while the latch is set the OUT pump's target is 0, so that
\* its rpm_desired is ramped toward 0.
C19_InterlockInManual ==
  [][(call'.op = "step" /\ call'.dt > 0 /\ ncalls' = ncalls + 1) =>
       LET c1 == out_block_latch(c, s.tank.level_pct, s.filter.wear_pct, call'.dt)
       IN /\ c'.out_blocked_by_filter = c1.out_blocked_by_filter
          /\ c'.out_block_timer_s = c1.out_block_timer_s
          /\ c'.out_unblock_timer_s = c1.out_unblock_timer_s
          /\ c'.out_blocked_by_filter =>
               s'.out_pump.rpm_desired =
                 _slew_to(s.out_pump.rpm_desired, 0, out_rpm_slew_per_s, call'.dt)]_vars

\* C20. Tick ordering: the commands of the operator are applied between
\* ticks, never inside one; a tick with dt > 0 runs PlantController.compute
\* on the state the commands left, then PlantProcess.step on the setpoints
\* compute has just chosen, then advances the clock. A pump the controller
\* starts on a tick already turns at the end of that tick.
C20_TickOrder ==
  [][/\ (call'.op = "step" /\ call'.dt > 0 /\ ncalls' = ncalls + 1) =>
          /\ \E draw \in Draws(call'.dt) :
               LET w == compute([s |-> s, c |-> c], call'.dt, draw)
                   p == process_step(w.s, call'.dt)
                   k == clock(s.time_s, _time_accum_s, call'.dt)
               IN /\ c' = w.c
                  /\ s' = [p EXCEPT !.time_s = k.time_s]
                  /\ _time_accum_s' = k.accum
          /\ \A which \in Pumps :
               (s'[which].state = "ON" /\ s'[which].rpm_desired > 0
                  /\ s'.stabilizer.vout_v > 0) => s'[which].rpm_actual > 0
     /\ (call'.op \notin {"step", "init"} /\ ncalls' = ncalls + 1) =>
          /\ c' = c
          /\ _time_accum_s' = _time_accum_s
          /\ s'.time_s = s.time_s]_vars

\* the voltage was set to 185 V and the first tick followed: the stabilizer
\* is in BYPASS, and the pumps the controller has just started are fed 185 V
\* and turn
C20_Witness ==
  /\ call.op = "step" /\ call.dt > 0 /\ ncalls = 2
  /\ s.stabilizer.vin_v = 185 /\ s.stabilizer.mode = "BYPASS"
  /\ s.in_pump.mode = "AUTO" /\ s.in_pump.state = "ON"
  /\ s.in_pump.voltage_v = 185 /\ s.in_pump.rpm_actual > 0
  /\ s.time_s > 0

\* C21. Latch confirmation timers: on every tick on which the block condition
\* (level < 20 % and wear >= 85 %) is false the block timer is zero afterwards,
\* and on every tick on which the unblock condition (wear <= 50 %) is false
\* the unblock timer is zero afterwards, also on ticks taken while the OUT
\* pump is in MANUAL; the latch sets only on a tick that observes the block
\* condition with the timer completing the confirmation time, and clears
\* only likewise, so time accumulated before an interruption never counts.
C21_TimersReset ==
  [][(call'.op = "step" /\ call'.dt > 0 /\ ncalls' = ncalls + 1) =>
       LET L == s.tank.level_pct
           C == s.filter.wear_pct
           want_block == (L < out_block_level_pct) /\ (C >= out_block_wear_pct)
           want_unblock == (C <= out_unblock_wear_pct)
       IN /\ ~want_block => c'.out_block_timer_s = 0
          /\ ~want_unblock => c'.out_unblock_timer_s = 0
          /\ (~c.out_blocked_by_filter /\ c'.out_blocked_by_filter) =>
               (want_block /\ c.out_block_timer_s + call'.dt >= out_block_confirm_s)
          /\ (c.out_blocked_by_filter /\ ~c'.out_blocked_by_filter) =>
               (want_unblock /\ c.out_unblock_timer_s + call'.dt >= out_unblock_confirm_s)]_vars

\* C22. Sustained operation at rpm_max reaches the fault: a pump held at
\* rpm_desired = rpm_max with the stabilizer NORMAL and stepped with one tick
\* size, whatever it is, eventually has motor_temp_c >= hard_limit_c and is
\* in FAULT.
C22_ReachesFault ==
  <>(\E which \in Pumps :
       /\ s[which].state = "FAULT"
       /\ s[which].motor_temp_c >= s[which].hard_limit_c)

\* C23. Stabilizer bands: after each physics step the mode and the output
\* are a function of the input voltage alone, in three bands: below the
\* fault threshold FAULT with output 0; above the bypass threshold, however
\* far, BYPASS with output = input; between them NORMAL with the nominal
\* output. The thresholds are 180 V and 240 V in PlantProcess and 170 V and
\* 240 V in StabilizerProcess.
C23_StabilizerBands ==
  /\ (call.op = "step" /\ call.dt > 0) =>
       LET st == s.stabilizer
       IN IF st.vin_v < bypass_v_min THEN st.mode = "FAULT" /\ st.vout_v = 0
          ELSE IF st.vin_v > normal_v_max
            THEN st.mode = "BYPASS" /\ st.vout_v = st.vin_v
          ELSE st.mode = "NORMAL" /\ st.vout_v = v_nom
  /\ call.op = "StabilizerProcess.step" =>
       IF mq.input_voltage < GRID_FAULT_LOW
         THEN mq.mode = "FAULT" /\ mq.output_voltage = 0
       ELSE IF mq.input_voltage > GRID_BYPASS_HIGH
         THEN mq.mode = "BYPASS" /\ mq.output_voltage = mq.input_voltage
       ELSE mq.mode = "NORMAL" /\ mq.output_voltage = mq.nominal_voltage

\* C24. Tank flow gating: after each physics step the inflow of the tank is
\* the flow of the IN pump when that pump is ON and the filter is in FILTER,
\* and 0 otherwise; the outflow of the tank is the flow of the OUT pump when
\* that pump is ON and 0 whenever it is not ON, so that the level does not
\* fall during a tick in which the OUT pump is not ON.
C24_TankFlowGating ==
  [][(call'.op = "step" /\ call'.dt > 0 /\ ncalls' = ncalls + 1) =>
       /\ s'.tank.in_flow_lpm =
            IF s'.in_pump.state = "ON" /\ s'.filter.mode = "FILTER"
              THEN s'.in_pump.flow_lpm ELSE 0
       /\ s'.tank.out_flow_lpm =
            IF s'.out_pump.state = "ON" THEN s'.out_pump.flow_lpm ELSE 0
       /\ s'.out_pump.state # "ON" =>
            s'.tank.level_liters >= s.tank.level_liters]_vars

\* C25. Stabilizer active power: after each physics step active_power_kw is
\* the power of the IN pump plus the power of the OUT pump plus the fixed
\* auxiliary loads, i.e. the filter system load when the filter is in FILTER
\* or BACKWASH, plus the load of the control electronics, in every filter
\* mode. Stated for PlantProcess.step and for StabilizerProcess.step.
C25_ActivePower ==
  LET aux == (IF s.filter.mode \in {"FILTER", "BACKWASH"}
                THEN filter_system_load_kw ELSE 0) + control_load_kw
      total == s.in_pump.power_kw + s.out_pump.power_kw + aux
  IN /\ (call.op = "step" /\ call.dt > 0) =>
          s.stabilizer.active_power_kw = total
     /\ call.op = "StabilizerProcess.step" => mq.active_power_kw = total

C27_StartThreshold ==
  [][LET tick == call'.op = "step" /\ call'.dt > 0 /\ ncalls' = ncalls + 1
         L == s.tank.level_pct
         C == s.filter.wear_pct
     IN (tick /\ s.filter.mode # "BACKWASH") =>
          /\ s'.filter.mode = "BACKWASH" <=>
               (C >= _start_threshold_wear(L) \/ L >= backwash_force_at_full_pct)
          /\ \A pct \in 0..100 :
               pct * 1000 >= L =>
                 _start_threshold_wear(pct * 1000) >= _start_threshold_wear(L)]_vars

\* C28. IN-pump target policy: the target the controller takes for an AUTO
\* IN pump outside BACKWASH is a step function of the level: rpm_max up to
\* 30 %, the nominal rpm above 30 % and below 80 %, a stepdown from the
\* nominal rpm to rpm_min in 5 % bands over [80, 95) (nominal in the first
\* band, rpm_min in the last, halfway between in the middle one), rpm_min
\* from 95 % and below 100 %, and 0 from 100 %. The function does not
\* increase with the level, and every target is 0 or within
\* [rpm_min, rpm_max] of the pump. Checked on the levels of a grid of 2.5 %
\* with the points next to every band edge, and on every tick of the run.
C28_InTargetPolicy ==
  [][LET tick == call'.op = "step" /\ call'.dt > 0 /\ ncalls' = ncalls + 1
         policy(L) ==
           IF L <= 30000 THEN s.in_pump.rpm_max
           ELSE IF L < 80000 THEN s.in_pump.rpm_nom
           ELSE IF L < 85000 THEN s.in_pump.rpm_nom
           ELSE IF L < 90000 THEN (s.in_pump.rpm_nom + s.in_pump.rpm_min) \div 2
           ELSE IF L < 100000 THEN s.in_pump.rpm_min
           ELSE 0
         Levels == {k * 2500 : k \in 0..40}
                     \cup {b + d : b \in {30000, 80000, 85000, 90000, 95000, 100000},
                                   d \in {-1, 0, 1}}
         Grid == {L \in Levels : L >= 0 /\ L <= 100000}
     IN tick =>
          /\ \A L \in Grid :
               /\ _in_rpm_target_by_level(L) = policy(L)
               /\ \/ _in_rpm_target_by_level(L) = 0
                  \/ /\ _in_rpm_target_by_level(L) >= s.in_pump.rpm_min
                     /\ _in_rpm_target_by_level(L) <= s.in_pump.rpm_max
               /\ \A L2 \in Grid :
                    L <= L2 =>
                      _in_rpm_target_by_level(L2) <= _in_rpm_target_by_level(L)
          /\ (s.in_pump.mode = "AUTO" /\ s'.filter.mode # "BACKWASH") =>
               s'.in_pump.rpm_desired =
                 _slew_to(s.in_pump.rpm_desired, policy(s.tank.level_pct),
                          in_rpm_slew_per_s, call'.dt)]_vars

\* the tank has filled into the middle band of the stepdown and the setpoint
\* of the IN pump has settled halfway between the nominal rpm and rpm_min
C28_Witness ==
  /\ call.op = "step" /\ call.dt > 0
  /\ s.in_pump.mode = "AUTO" /\ s.filter.mode = "FILTER"
  /\ s.tank.level_pct >= 86000 /\ s.tank.level_pct < 90000
  /\ s.in_pump.rpm_desired = 1750

\* C29. During BACKWASH the target of an AUTO IN pump is 0, from the very
\* tick on which the controller switches the filter to BACKWASH: on every
\* tick that ends with the filter in BACKWASH the rpm_desired of an AUTO IN
\* pump has moved towards 0 by the slew of the tick and has not increased,
\* and the tank has received no inflow.
C29_BackwashStopsIn ==
  [][(call'.op = "step" /\ call'.dt > 0 /\ ncalls' = ncalls + 1
        /\ s'.filter.mode = "BACKWASH") =>
       /\ s.in_pump.mode = "AUTO" =>
            /\ s'.in_pump.rpm_desired <= s.in_pump.rpm_desired
            /\ s'.in_pump.rpm_desired =
                 _slew_to(s.in_pump.rpm_desired, 0, in_rpm_slew_per_s, call'.dt)
       /\ s'.tank.in_flow_lpm = 0
       /\ s'.tank.level_liters <= s.tank.level_liters]_vars

\* the tick on which the controller has switched to BACKWASH (its count of
\* backwash time is still zero): the setpoint of the AUTO IN pump is already
\* on its way down while the pump still turns, and no water enters the tank
C29_Witness ==
  /\ call.op = "step" /\ call.dt > 0
  /\ s.filter.mode = "BACKWASH" /\ c.backwash_elapsed_s = 0
  /\ s.in_pump.mode = "AUTO" /\ s.in_pump.state = "ON"
  /\ s.in_pump.rpm_desired > 0
  /\ s.in_pump.rpm_desired < s0.in_pump.rpm_desired
  /\ s.in_pump.flow_lpm > 0
  /\ s.tank.in_flow_lpm = 0

\* C30. OUT-pump blocking response: on every tick on which the OUT pump is
\* in AUTO and the controller finds the level at or below out_off_at_pct or
\* holds the out-blocked-by-filter latch, the target is 0: rpm_desired, which
\* never exceeds rpm_max, comes down by the full slew of the tick or reaches
\* 0 and never increases, so that blocking ticks whose dt add up to
\* rpm_max / out_rpm_slew_per_s leave it at 0; the pump is OFF and at rest
\* as soon as rpm_desired is below rpm_min, and a pump with rpm_desired 0
\* stays at 0 and OFF on every further blocking tick.
C30_OutBlocked ==
  [][LET tick == call'.op = "step" /\ call'.dt > 0 /\ ncalls' = ncalls + 1
         blocking == \/ s.tank.level_pct <= out_off_at_pct
                     \/ c'.out_blocked_by_filter
         rpm == s.out_pump.rpm_desired
         slew == (out_rpm_slew_per_s * call'.dt) \div 1000
     IN (tick /\ s.out_pump.mode = "AUTO" /\ blocking) =>
          /\ rpm <= s.out_pump.rpm_max
          /\ s'.out_pump.rpm_desired = (IF rpm <= slew THEN 0 ELSE rpm - slew)
          /\ s'.out_pump.rpm_desired <= rpm
          /\ call'.dt * out_rpm_slew_per_s >= s.out_pump.rpm_max * 1000 =>
               s'.out_pump.rpm_desired = 0
          /\ s'.out_pump.rpm_desired < s.out_pump.rpm_min =>
               /\ s'.out_pump.state = "OFF"
               /\ s'.out_pump.rpm_actual = 0
               /\ s'.out_pump.flow_lpm = 0
          /\ rpm = 0 => s'.out_pump.rpm_desired = 0 /\ s'.out_pump.state = "OFF"]_vars

\* the level is below out_off_at_pct, the latch is not set, and the AUTO OUT
\* pump has been brought to rpm_desired 0 and is OFF
C30_Witness ==
  /\ call.op = "step" /\ call.dt > 0
  /\ s.out_pump.mode = "AUTO"
  /\ s.tank.level_pct <= out_off_at_pct /\ ~c.out_blocked_by_filter
  /\ s.out_pump.rpm_desired = 0 /\ s.out_pump.state = "OFF"
  /\ s0.out_pump.rpm_desired > 0

\* C31. Tick-rate independence: with the level, the wear and the demand held
\* constant, the controller that is given 3 s (or 11 s) as one tick and the
\* controller that is given the same time as ticks of 1 s end with the same
\* rpm_desired for both pumps, the same out-blocked latch and the same
\* filter mode, from every state of the plant and the controller.
C31_TickRateIndependent ==
  \A total \in {3, 11} :
    LET now == [s |-> s, c |-> c]
        one == compute_n(now, total * 1000, c.out_demand_factor, 1)
        many == compute_n(now, 1000, c.out_demand_factor, total)
    IN /\ one.s.in_pump.rpm_desired = many.s.in_pump.rpm_desired
       /\ one.s.out_pump.rpm_desired = many.s.out_pump.rpm_desired
       /\ one.c.out_blocked_by_filter = many.c.out_blocked_by_filter
       /\ one.s.filter.mode = many.s.filter.mode

\* C35. auth_ok does not influence control: a control command handled with
\* auth_ok = TRUE and the same command handled with auth_ok = FALSE, from
\* states that differ at most in the auth_ok recorded in last_command, leave
\* the same setpoints, pump states, valve states and modes; the states
\* differ only in the auth_ok recorded in last_command, which is the flag of
\* the command. By induction two runs of the same commands that differ only
\* in auth_ok flags end in states that differ only there.
C35_AuthOkNoInfluence ==
  [][(call'.op = "control" /\ ncalls' = ncalls + 1) =>
       LET e == ev'
           other_e == [e EXCEPT !.auth_ok = ~e.auth_ok]
           handled(st, x) ==
             IF st.program = "iot_sim"
               THEN publisher_on_control(_on_control(st, x, ncalls + 1), x)
               ELSE control_listener(st, x, ncalls + 1)
           same_but_flag(a, b) ==
             [a EXCEPT !.last_command.auth_ok = TRUE]
               = [b EXCEPT !.last_command.auth_ok = TRUE]
       IN /\ mq' = handled(mq, e)
          /\ \A flag \in BOOLEAN :
               LET other_mq == [mq EXCEPT !.last_command.auth_ok = flag]
               IN /\ same_but_flag(handled(other_mq, other_e), mq')
                  /\ handled(other_mq, other_e).last_command # other_mq.last_command =>
                       handled(other_mq, other_e).last_command.auth_ok = other_e.auth_ok
          /\ mq'.last_command # mq.last_command =>
               mq'.last_command.auth_ok = e.auth_ok]_vars

\* a SET_RPM command with auth_ok = FALSE has changed the setpoint of the IN
\* pump and is recorded as not authorised
C35_Witness ==
  /\ call.op = "control"
  /\ ev.command = "SET_RPM" /\ ev.target = "pump_in" /\ ~ev.auth_ok
  /\ mq.pump_in_rpm = 3000
  /\ mq.last_command.command = "SET_RPM" /\ ~mq.last_command.auth_ok

\* C34. EventBus delivery: a publish stamps the event with the next seq,
\* every subscriber is given its events in strictly increasing seq order
\* whichever of the publishers (clock_task, SecurityAndAttackGenerator)
\* runs, an event is dropped for a subscriber exactly when that
\* subscriber's queue is full at the put while the subscribers with room
\* still get it, and a full queue never keeps a publisher from publishing.
C34_BusDelivery ==
  /\ [](\A sub \in BusSubscribers :
          LET given == <<mq.taken[sub]>> \o mq._subs[sub]
          IN /\ \A i, j \in DOMAIN given : i < j => given[i].seq < given[j].seq
             /\ \A i \in DOMAIN given : given[i].seq \in 0..mq._seq)
  /\ [](mq._seq < MaxBusEvents => ENABLED ClockTick)
  /\ [][\A sub \in BusSubscribers :
          LET old == IF mq'.taken[sub] # mq.taken[sub]
                       THEN Tail(mq._subs[sub]) ELSE mq._subs[sub]
              published == mq'._seq - mq._seq
              room == MaxBusQueue - Len(old)
              put == IF published < room THEN published ELSE room
          IN /\ published >= 0
             /\ Len(mq'._subs[sub]) = Len(old) + put
             /\ SubSeq(mq'._subs[sub], 1, Len(old)) = old
             /\ \A i \in 1..put : mq'._subs[sub][Len(old) + i].seq = mq._seq + i]_vars

\* an event was dropped for the controller, whose queue was full, and
\* given to the publisher; the publisher's queue holds a tick of the clock
\* behind an event of the generator
C34_Witness ==
  /\ Len(mq._subs["controller"]) = MaxBusQueue
  /\ \E i \in DOMAIN mq._subs["publisher"] :
       /\ mq._subs["publisher"][i].seq > mq.taken["controller"].seq
       /\ \A j \in DOMAIN mq._subs["controller"] :
            mq._subs["controller"][j].seq # mq._subs["publisher"][i].seq
       /\ mq._subs["publisher"][i].seq < mq._subs["controller"][MaxBusQueue].seq
  /\ \E i, j \in DOMAIN mq._subs["publisher"] :
       /\ i < j
       /\ mq._subs["publisher"][i].type = "security"
       /\ mq._subs["publisher"][j].type = "tick"

\* C32. Ticks are atomic with respect to commands: at every point where
\* another task can run, the physics of the last tick counted has been
\* computed in full; a step that applies a command leaves the tick count
\* and the physics alone, and a step that runs a tick applies no command,
\* counts one tick and computes its physics from the state it found.
C32_TickAtomic ==
  /\ [](mq.physics.tick_n = mq.tick_n)
  /\ [][/\ mq'.state # mq.state =>
             /\ call'.op \in {"controller", "publisher"}
             /\ mq'.tick_n = mq.tick_n
             /\ mq'.physics = mq.physics
        /\ mq'.tick_n # mq.tick_n =>
             /\ mq'.state = mq.state
             /\ mq'.tick_n = mq.tick_n + 1
             /\ mq'.physics.tick_n = mq.tick_n + 1
             /\ mq'.physics.pump_in_rpm = mq.state.pump_in_rpm
             /\ mq'.physics.valves_state = mq.state.valves_state]_vars

\* a command was applied between two ticks and the second tick read it
C32_Witness ==
  /\ mq.program = "iot_sim_bus"
  /\ mq.tick_n = 2
  /\ mq.state.last_command.command = "SET_RPM"
  /\ mq.physics.tick_n = 2
  /\ mq.physics.pump_in_rpm = WaterPlantState.pump_in_rpm + attack_rpm_delta_min

\* C33. Command/tick ordering: a subscriber takes the oldest event of its
\* queue, and when the controller computes the physics of a tick, no
\* control event published before that tick is still waiting to be applied
\* to the state in the queue of a task that applies it (a control event
\* dropped at a full queue is in no queue).
C33_CommandBeforeTick ==
  [][/\ \A sub \in BusSubscribers :
          mq'.taken[sub] # mq.taken[sub] =>
            /\ mq'.taken[sub] = Head(mq._subs[sub])
            /\ \A i \in DOMAIN mq._subs[sub] :
                 mq'.taken[sub].seq <= mq._subs[sub][i].seq
     /\ mq'.tick_n # mq.tick_n =>
          \A sub \in {"controller", "publisher"} :
            \A i \in DOMAIN mq'._subs[sub] :
              LET event == mq'._subs[sub][i]
              IN ~(/\ event.type = "control"
                   /\ event.seq < mq'.taken["controller"].seq
                   /\ IF sub = "controller"
                        THEN _on_control(mq.state, event.data, event.seq) # mq.state
                        ELSE publisher_on_control(mq.state, event.data) # mq.state)]_vars

\* C36. Every backwash terminates: with ticks of dt > 0 continuing to
\* arrive, a filter in BACKWASH returns to FILTER.  The argument in steps:
\* on every tick that finds and leaves the filter in BACKWASH the
\* controller's backwash time grows by dt and the wear falls by the clean
\* rate or rests at the floor; the floor is not above the stop target of
\* any level; and a backwash that has run its minimum time ends on the
\* tick that finds the wear at or below the target or the level at or
\* below the backwash minimum.
C36_BackwashTerminates ==
  /\ (s.filter.mode = "BACKWASH") ~> (s.filter.mode = "FILTER")
  /\ [](\A L \in {250 * k : k \in 0..400} :
          PlantState.filter.min_wear_after_backwash_pct <= _stop_target_wear(L))
  /\ [][(s.filter.mode = "BACKWASH" /\ call'.op = "step") =>
          /\ s'.filter.mode \in {"BACKWASH", "FILTER"}
          /\ s'.filter.mode = "BACKWASH" =>
               /\ c'.backwash_elapsed_s = c.backwash_elapsed_s + call'.dt
               /\ s'.filter.wear_pct =
                    max(s.filter.min_wear_after_backwash_pct,
                        s.filter.wear_pct - clean_rate_pct_per_s * call'.dt)
          /\ s'.filter.mode = "FILTER" <=>
               /\ c.backwash_elapsed_s + call'.dt >= backwash_min_duration_s
               /\ \/ s.filter.wear_pct <= _stop_target_wear(s.tank.level_pct)
                  \/ s.tank.level_pct <= backwash_min_level_pct]_vars

\* a backwash has ended on the wear with the level above the backwash
\* minimum (no run starts with a wear between the floor and 35 %)
C36_Witness ==
  /\ call.op = "step"
  /\ s.filter.mode = "FILTER"
  /\ c.backwash_elapsed_s = 0
  /\ s.filter.wear_pct < 35000
  /\ s.filter.wear_pct >= 10000
  /\ s.tank.level_pct > backwash_min_level_pct
  /\ s.tank.level_pct < 100000
  /\ s.time_s >= 10

\* C37. No permanent OUT lockout: with both pumps in AUTO, the stabilizer
\* NORMAL and no commands, once the out-blocked-by-filter latch is set,
\* ticks of a fixed dt > 0 eventually clear it, and the OUT pump runs
\* again after that.  While the latch is held the unblock time grows by dt
\* on every tick that finds the wear at or below the unblock wear and
\* restarts otherwise, and the latch clears on the tick where that time
\* reaches the unblock confirmation time.
C37_NoPermanentLockout ==
  /\ c.out_blocked_by_filter ~> ~c.out_blocked_by_filter
  /\ c.out_blocked_by_filter ~> (~c.out_blocked_by_filter /\ s.out_pump.state = "ON")
  /\ [](s.in_pump.mode = "AUTO" /\ s.out_pump.mode = "AUTO"
          /\ s.stabilizer.mode = "NORMAL")
  /\ [][(c.out_blocked_by_filter /\ call'.op = "step") =>
          LET confirmed == /\ s.filter.wear_pct <= out_unblock_wear_pct
                           /\ c.out_unblock_timer_s + call'.dt >= out_unblock_confirm_s
          IN /\ c'.out_blocked_by_filter = ~confirmed
             /\ c'.out_unblock_timer_s =
                  IF s.filter.wear_pct <= out_unblock_wear_pct /\ ~confirmed
                    THEN c.out_unblock_timer_s + call'.dt ELSE 0
             /\ s'.out_pump.rpm_desired =
                  _slew_to(s.out_pump.rpm_desired,
                           IF confirmed /\ s.tank.level_pct > out_off_at_pct
                             THEN out_rpm_target(c', s.tank.level_pct) ELSE 0,
                           out_rpm_slew_per_s, call'.dt)
             /\ confirmed /\ s.tank.level_pct > out_off_at_pct =>
                  s'.out_pump.rpm_desired > s.out_pump.rpm_desired]_vars

\* the latch has just cleared after a backwash took the wear to 50 % or
\* less, and the OUT pump is on its way up from rest
C37_Witness ==
  /\ call.op = "step"
  /\ ~c.out_blocked_by_filter
  /\ s.time_s > 20
  /\ s.filter.wear_pct <= out_unblock_wear_pct
  /\ s.tank.level_pct > out_limit_at_pct
  /\ s.out_pump.rpm_desired > 0
  /\ s.out_pump.rpm_desired < out_rpm_min
  /\ s.out_pump.state = "OFF"

\* C38. No overshoot for any dt: on every physics step with dt > 0, up to
\* dt far above the time constants, a pump outside the hard-off case that
\* does not trip has its rpm_actual moved to a value between the previous
\* one and rpm_desired * voltage_factor capped at rpm_max, and its
\* motor_temp_c to a value between the previous one and the equilibrium
\* temperature of the new speed; a pump in the hard-off case is at rest
\* and its temperature lies between the previous one and the ambient; a
\* pump that trips is at rest and its temperature lies between the
\* previous one and the largest equilibrium temperature.
C38_NoOvershoot ==
  [][(call'.op = "step" /\ call'.dt > 0) =>
       \A which \in Pumps :
         LET p == s[which]
             q == s'[which]
             between(a, b, x) == min(a, b) <= x /\ x <= max(a, b)
             ambient_c == s.env.ambient_temperature_c
             vf == clamp(IF v_nom > 0 THEN fdiv(q.voltage_v * 1000, v_nom) ELSE 0, 0, 1250)
             rpm_target == clamp(fdiv(q.rpm_desired * vf, 1000), 0, q.rpm_max)
             rpm_norm == clamp(rpm_ratio(q.rpm_actual, q.rpm_nom), 0, 2000)
             teq == clamp(ambient_c + fdiv(70000 * fdiv(rpm_norm * rpm_norm, 1000), 1000),
                          ambient_c, 110000)
         IN IF q.state = "OFF" \/ q.rpm_desired <= 0
              THEN q.rpm_actual = 0 /\ between(p.motor_temp_c, ambient_c, q.motor_temp_c)
            ELSE IF q.motor_temp_c >= q.hard_limit_c
              THEN /\ q.rpm_actual = 0
                   /\ q.state = "FAULT"
                   /\ between(p.motor_temp_c, 110000, q.motor_temp_c)
            ELSE /\ between(p.rpm_actual, rpm_target, q.rpm_actual)
                 /\ between(p.motor_temp_c, teq, q.motor_temp_c)]_vars

\* a tick of 120 s, far above the 1.5 s of the speed and equal to the 120 s
\* of the heating, has taken a running pump to its target speed and its
\* equilibrium temperature, no further
C38_Witness ==
  /\ call.op = "step"
  /\ call.dt = 120000
  /\ s.in_pump.state = "ON"
  /\ s.in_pump.rpm_desired > 0
  /\ s.in_pump.rpm_actual =
       clamp(fdiv(s.in_pump.rpm_desired * fdiv(s.in_pump.voltage_v * 1000, v_nom), 1000),
             0, s.in_pump.rpm_max)
  /\ s.in_pump.motor_temp_c > s.env.ambient_temperature_c
  /\ s.in_pump.motor_temp_c < s.in_pump.hard_limit_c

====
